---- MODULE Spec2Model ----
(***************************************************************************)
(* Model of the chat client core of info1c8/ai-chatbot:                    *)
(*   - CerebrasClient.sendMessageStream, the streaming ingestion loop,     *)
(*     together with the callbacks ChatInterface.sendMessage hands to it   *)
(*     (specification SpecStream);                                         *)
(*   - the session collection of ChatInterface and the handlers that       *)
(*     mutate it (specification Spec).                                     *)
(* Text is modelled as a sequence of one-character strings, so that        *)
(* splitting, prefix tests and concatenation are computed, not assumed.    *)
(***************************************************************************)
EXTENDS Integers, Sequences, FiniteSets, TLC

VARIABLES
    \* ---- streaming ingestion (CerebrasClient.sendMessageStream) ----
    frames,          \* the lines the server put on the wire, in wire order
    lastTerminated,  \* whether the last line on the wire ends with a newline
    body,            \* the response body: the characters of the wire
    pos,             \* number of characters of body already returned by reader.read()
    buffer,          \* `buffer`: the unfinished line kept between reads
    totalContent,    \* `totalContent`: the client's full-response buffer
    tokenCount,      \* `tokenCount`
    calls,           \* the callback invocations made so far, in order
    spc,             \* position of sendMessageStream
    failure,         \* what was thrown, when spc = "threw"
    midLineSplit,    \* a read has ended inside a line
    fullResponse,    \* `fullResponse` of the calling sendMessage
    streamingMessage,\* `streamingMessage` state of ChatInterface
    assistantMessage,\* `assistantMessage`, the local of the calling sendMessage
    appended,        \* the message sendMessage appends once the stream has ended
    \* ---- session collection (ChatInterface) ----
    sessions,        \* `sessions`: the collection, most recent first
    currentSessionId,\* `currentSessionId`, NoSession when null
    mounted,         \* the component has been mounted (its first effects have run)
    cerebrasClient,  \* `cerebrasClient.current`, None until an API key is configured
    config,          \* `config`
    isLoading,       \* `isLoading`
    isStreaming,     \* `isStreaming`
    sends,           \* the sendMessage calls made so far, with their captured locals
    nextSid,         \* next fresh session id (crypto.randomUUID)
    nextMid,         \* next fresh message id (crypto.randomUUID)
    firstContent,    \* for each message id, the content the message was created with
    lastDelete,      \* what the last deleteSession call did
    nEdits,          \* number of handleMessageEdit calls so far
    nImports,        \* number of imports so far
    \* ---- clock, heap, files in and out, search, attachments ----
    now,             \* the clock `new Date()` reads, in ticks
    reactionArrays,  \* the heap of `reactions` arrays: reference -> entries
    reacted,         \* the handleMessageReaction calls made so far, in order
    exported,        \* the file exportSessions last saved
    lastImport,      \* what the last importSessions call was given and showed
    filters,         \* `filters` of useSearch
    attachedFiles,   \* `attachedFiles` of ChatInput
    lastValidation,  \* the file handleFileSelect last validated, with the verdict
    attaching,       \* the createAttachedFile call in progress: its four promises
    lastEdit         \* the sidebar's last change of a session: what, which, from what

streamVars == <<frames, lastTerminated, body, pos, buffer, totalContent, tokenCount,
                calls, spc, failure, midLineSplit, fullResponse, streamingMessage,
                assistantMessage, appended>>

\* the streaming variables the session handlers never touch
streamRest == <<frames, lastTerminated, body, pos, buffer, totalContent, tokenCount,
                calls, spc, failure, midLineSplit, fullResponse, assistantMessage,
                appended>>

sessionVars == <<sessions, currentSessionId, mounted, cerebrasClient, config,
                 isLoading, isStreaming, sends, nextSid, nextMid, firstContent,
                 lastDelete, nEdits, nImports>>

sessionVarsButSends == <<sessions, currentSessionId, mounted, cerebrasClient, config,
                         isLoading, isStreaming, nextSid, nextMid, firstContent,
                         lastDelete, nEdits, nImports>>

\* the clock, the heap of reaction arrays, the export/import files, the search
\* filters and the attachments of the input box
newVars == <<now, reactionArrays, reacted, exported, lastImport, filters,
             attachedFiles, lastValidation, attaching, lastEdit>>

vars == <<streamVars, sessionVars, newVars>>

\* ------------------------------------------------------------------------
\* Bounds
\* ------------------------------------------------------------------------
MaxFrames == 4

\* ------------------------------------------------------------------------
\* Text helpers
\* ------------------------------------------------------------------------
NL == "\n"

None == "none"

\* a message without metadata (`metadata` undefined)
NoMetadata ==
    [model |-> None, cost |-> 0, language |-> None, sentiment |-> None,
     topics |-> <<>>]

\* new Date(): a Date object for the instant ms
Date(ms) == [kind |-> "Date", ms |-> ms]

\* the reference of a message without a `reactions` array (undefined)
NoArray == 0

\* { id, role, content, files, timestamp }: a message as sendMessage creates
\* it. A missing `tokens` reads as 0 wherever it is used (msg.tokens || 0), a
\* missing `isEdited` as false; `reactions` is a reference into reactionArrays.
MessageAt(id, role, content, ms) ==
    [id |-> id, role |-> role, content |-> content, files |-> <<>>,
     timestamp |-> Date(ms), metadata |-> NoMetadata,
     tokens |-> 0, isEdited |-> FALSE, originalContent |-> <<>>,
     reactions |-> NoArray]

NewMessage(id, role, content) == MessageAt(id, role, content, now)

\* no message
NoMessage == MessageAt(0, None, <<>>, 0)

RECURSIVE Concat(_)
Concat(ss) == IF ss = <<>> THEN <<>> ELSE Head(ss) \o Concat(Tail(ss))

\* String.prototype.startsWith
startsWith(s, p) == Len(s) >= Len(p) /\ SubSeq(s, 1, Len(p)) = p

\* String.prototype.slice(n)
slice(s, n) == SubSeq(s, n + 1, Len(s))

\* String.prototype.split(sep) for a one-character separator: always at
\* least one piece, the last piece is what follows the last separator.
RECURSIVE splitFrom(_, _, _, _)
splitFrom(s, sep, cur, acc) ==
    IF s = <<>> THEN Append(acc, cur)
    ELSE IF Head(s) = sep THEN splitFrom(Tail(s), sep, <<>>, Append(acc, cur))
    ELSE splitFrom(Tail(s), sep, Append(cur, Head(s)), acc)

split(s, sep) == splitFrom(s, sep, <<>>, <<>>)

\* ------------------------------------------------------------------------
\* The wire format (spec section 6): lines `data: <json>` and `data: [DONE]`
\* ------------------------------------------------------------------------
\* the literal 'data: '
DataPrefix == <<"d", ":">>

\* the literal '[DONE]'
DoneSentinel == <<"[", "]">>

ContentChars == {"a", "b", "ya", "1"}

\* JSON.parse(data) followed by parsed.choices[0]?.delta?.content.
\* A payload {c1..cn} stands for {"choices":[{"delta":{"content":"c1..cn"}}]};
\* {} stands for a frame that parses but carries no content; everything else
\* (a missing brace, stray characters) makes JSON.parse throw.
JSONParses(data) ==
    /\ Len(data) >= 2
    /\ data[1] = "{"
    /\ data[Len(data)] = "}"
    /\ \A i \in 2..(Len(data) - 1) : data[i] \in ContentChars

DeltaContent(data) == SubSeq(data, 2, Len(data) - 1)

\* The lines a server may send.
DeltaFrame(c) == [kind |-> "delta", content |-> c]
DoneFrame == [kind |-> "done", content |-> <<>>]
MalformedFrame == [kind |-> "malformed", content |-> <<>>]

FrameKinds ==
    {DeltaFrame(<<"a">>), DeltaFrame(<<"b">>), DeltaFrame(<<>>),
     DoneFrame, MalformedFrame}

\* The characters of a line, without its newline.
Render(f) ==
    CASE f.kind = "delta" -> DataPrefix \o <<"{">> \o f.content \o <<"}">>
      [] f.kind = "done" -> DataPrefix \o DoneSentinel
      [] OTHER -> DataPrefix \o <<"{", "a">>

RECURSIVE RenderAll(_, _)
RenderAll(fs, term) ==
    IF fs = <<>> THEN <<>>
    ELSE IF Len(fs) = 1 THEN Render(fs[1]) \o (IF term THEN <<NL>> ELSE <<>>)
    ELSE Render(Head(fs)) \o <<NL>> \o RenderAll(Tail(fs), term)

FrameSeqs == UNION {[1..n -> FrameKinds] : n \in 0..MaxFrames}

\* ------------------------------------------------------------------------
\* CerebrasClient helpers
\* ------------------------------------------------------------------------
DefaultModel == "llama3.1-8b"

\* the price table of calculateCost, in hundredths of a dollar per thousand
\* tokens (0.10 and 0.60); unknown models fall back to 0.10
pricePerThousand(model) ==
    CASE model = "llama3.1-8b" -> 10
      [] model = "llama3.1-70b" -> 60
      [] OTHER -> 10

\* (tokens / 1000) * pricePerThousand, in units of 10^-5 dollar
calculateCost(tokens, model) == tokens * pricePerThousand(model)

\* String.prototype.includes
includes(text, word) ==
    \E i \in 1..(Len(text) - Len(word) + 1) : SubSeq(text, i, i + Len(word) - 1) = word

\* the keyword lists of analyzeSentiment, over the model's alphabet
positiveWords == {<<"a">>}

negativeWords == {<<"b">>}

\* keyword counting; a tie is neutral
analyzeSentiment(text) ==
    LET positiveCount == Cardinality({w \in positiveWords : includes(text, w)})
        negativeCount == Cardinality({w \in negativeWords : includes(text, w)})
    IN IF positiveCount > negativeCount THEN "positive"
       ELSE IF negativeCount > positiveCount THEN "negative"
       ELSE "neutral"

\* mutant: the caller's callback overwrites instead of accumulating
onChunkOverwrite(st, chunk) ==
    [st EXCEPT !.fullResponse = chunk,
               !.streamingMessage = chunk,
               !.calls = Append(@, [kind |-> "chunk", arg |-> chunk])]

\* ------------------------------------------------------------------------
\* The callbacks ChatInterface.sendMessage passes to sendMessageStream.
\* st is the state the read loop and the callbacks work on.
\* ------------------------------------------------------------------------
\* (chunk) => { fullResponse += chunk; setStreamingMessage(fullResponse); }
onChunk(st, chunk) ==
    [st EXCEPT !.fullResponse = @ \o chunk,
               !.streamingMessage = st.fullResponse \o chunk,
               !.calls = Append(@, [kind |-> "chunk", arg |-> chunk])]

\* (metadata) => { assistantMessage.metadata = metadata; ... }
onComplete(st, metadata) ==
    [st EXCEPT !.assistantMessage = [@ EXCEPT !.metadata = metadata],
               !.calls = Append(@, [kind |-> "complete", arg |-> metadata])]

\* mutant: the unfinished line is dropped instead of kept
nextBufferDropped(lines) == <<>>

\* ------------------------------------------------------------------------
\* The read loop of sendMessageStream
\* ------------------------------------------------------------------------
\* buffer = lines.pop() || ''
nextBuffer(lines) == lines[Len(lines)]

\* the lines left after lines.pop()
completeLines(lines) == SubSeq(lines, 1, Len(lines) - 1)

\* the keyword table of extractTopics, over the model's alphabet, in the
\* order of its entries
topicKeywords ==
    << [topic |-> "t1", keywords |-> {<<"a">>}],
       [topic |-> "t2", keywords |-> {<<"b">>}] >>

\* the topics with a keyword in the text, in the order of the table
extractTopics(text) ==
    LET hit == SelectSeq(topicKeywords,
                   LAMBDA e : \E keyword \in e.keywords : includes(text, keyword))
    IN [i \in 1..Len(hit) |-> hit[i].topic]

\* The letters of the class [a-z] under the i flag.
englishChars ==
    {"a", "b", "c", "d", "e", "f", "g", "h", "i", "j", "k", "l", "m",
     "n", "o", "p", "q", "r", "s", "t", "u", "v", "w", "x", "y", "z",
     "A", "B", "C", "D", "E", "F", "G", "H", "I", "J", "K", "L", "M",
     "N", "O", "P", "Q", "R", "S", "T", "U", "V", "W", "X", "Y", "Z"}

\* The letters of the class [a-ya, yo] under the i flag. A Cyrillic letter
\* is written by its Latin name: "ya" and "YA" are the last letter of the
\* alphabet in lower and upper case, "zh" and "yo" two more letters.
russianChars == {"ya", "YA", "zh", "yo"}

\* (text.match(regex) || []).length for a regex without the g flag and
\* without groups: match returns null, or an array holding the first match
matchLength(text, class) ==
    IF \E i \in 1..Len(text) : text[i] \in class THEN 1 ELSE 0

\* detectLanguage
detectLanguage(text) ==
    LET russianCount == matchLength(text, russianChars)
        englishCount == matchLength(text, englishChars)
    IN IF russianCount > englishCount THEN "ru"
       ELSE IF englishCount > russianCount THEN "en"
       ELSE "mixed"

\* const metadata = { model, ..., cost, language, sentiment, topics }
streamMetadata(content, tokens, model) ==
    [model |-> model, cost |-> calculateCost(tokens, model),
     language |-> detectLanguage(content),
     sentiment |-> analyzeSentiment(content), topics |-> extractTopics(content)]

\* mutant: the terminator branch calls onComplete and goes on with the lines
handleDoneNoReturn(st) ==
    onComplete(st, streamMetadata(st.totalContent, st.tokenCount, DefaultModel))

\* the `data === '[DONE]'` branch: build the metadata, onComplete, return
handleDone(st) ==
    [onComplete(st, streamMetadata(st.totalContent, st.tokenCount, DefaultModel))
        EXCEPT !.returned = TRUE]

\* the body of the try block once JSON.parse has succeeded
handleDelta(st, content) ==
    IF content # <<>>
    THEN onChunk([st EXCEPT !.totalContent = @ \o content,
                            !.tokenCount = @ + 1], content)
    ELSE st

\* mutant: the parse error is not caught
handleParseErrorThrows(st) == [st EXCEPT !.threw = TRUE]

\* catch (e) { /* ignore parsing errors for incomplete chunks */ }
handleParseError(st) == st

\* the body of `for (const line of lines)`
processLine(st, line) ==
    IF startsWith(line, DataPrefix)
    THEN LET data == slice(line, Len(DataPrefix)) IN
         IF data = DoneSentinel THEN handleDone(st)
         ELSE IF JSONParses(data) THEN handleDelta(st, DeltaContent(data))
         ELSE handleParseError(st)
    ELSE st

\* for (const line of lines) { ... }, left by `return` or by an exception
RECURSIVE processLines(_, _)
processLines(st, lines) ==
    IF lines = <<>> \/ st.returned \/ st.threw THEN st
    ELSE processLines(processLine(st, Head(lines)), Tail(lines))

\* const assistantMessage = { id, role: 'assistant', content: '', timestamp }
NewAssistantMessage == MessageAt(1, "assistant", <<>>, 0)

LoopState ==
    [totalContent |-> totalContent, tokenCount |-> tokenCount, calls |-> calls,
     fullResponse |-> fullResponse, streamingMessage |-> streamingMessage,
     assistantMessage |-> assistantMessage, returned |-> FALSE, threw |-> FALSE]

\* ------------------------------------------------------------------------
\* ChatInterface: the state after construction
\* ------------------------------------------------------------------------
NoSession == 0

NoDelete == [happened |-> FALSE, wasSelected |-> FALSE, hadRemaining |-> FALSE]

\* nothing exported yet: no file, exported from no collection
NoFile == [saved |-> FALSE, json |-> <<>>, from |-> <<>>]

\* no import yet
NoImport ==
    [payload |-> None, toast |-> None, content |-> <<>>, original |-> <<>>,
     before |-> <<>>, after |-> <<>>]

\* useState<SearchFilters>({}): every dimension undefined. A dimension is
\* a set: empty when undefined, else holding its value.
NoFilters ==
    [query |-> {}, dateFrom |-> {}, dateTo |-> {}, tags |-> {}, category |-> {},
     messageType |-> {}, hasFiles |-> {}, sentiment |-> {}]

\* the sidebar has changed no session yet
NoEdit == [op |-> None, sid |-> NoSession, flag |-> FALSE, title |-> <<>>]

\* no createAttachedFile call has been made
NoAttaching ==
    [file |-> [name |-> <<>>, type |-> <<>>, size |-> 0], readable |-> FALSE,
     content |-> None, thumbnailReader |-> None, thumbnail |-> None,
     metadata |-> None, extractedText |-> None, outcome |-> None]

NoValidation ==
    [checked |-> FALSE, valid |-> FALSE, error |-> None,
     file |-> [name |-> <<>>, type |-> <<>>, size |-> 0], attached |-> FALSE]

\* temperature: 0.7, in tenths
DefaultTemperature == 7

\* the initial value of `config`
DefaultConfig ==
    [streamResponse |-> TRUE, model |-> DefaultModel,
     temperature |-> DefaultTemperature]

\* useLocalStorage('chat-sessions', []), useState(null), useState(false), ...
StartWith(stored) ==
    /\ sessions = stored
    /\ currentSessionId = NoSession
    /\ mounted = FALSE
    /\ cerebrasClient = None
    /\ config = DefaultConfig
    /\ isLoading = FALSE
    /\ isStreaming = FALSE
    /\ sends = <<>>
    /\ nextSid = 1
    /\ nextMid = 1
    /\ firstContent = <<>>
    /\ lastDelete = NoDelete
    /\ nEdits = 0
    /\ nImports = 0
    /\ now = 0
    /\ reactionArrays = <<>>
    /\ reacted = <<>>
    /\ exported = NoFile
    /\ lastImport = NoImport
    /\ filters = NoFilters
    /\ attachedFiles = <<>>
    /\ lastValidation = NoValidation
    /\ attaching = NoAttaching
    /\ lastEdit = NoEdit

\* useLocalStorage('chat-sessions', []) with nothing stored
SessionStart == StartWith(<<>>)

\* ------------------------------------------------------------------------
\* Specification SpecStream
\* ------------------------------------------------------------------------
StreamInitOf(frameSeqs) ==
    /\ frames \in frameSeqs
    /\ lastTerminated \in BOOLEAN
    /\ body = RenderAll(frames, lastTerminated)
    /\ pos = 0
    /\ buffer = <<>>
    /\ totalContent = <<>>
    /\ tokenCount = 0
    /\ calls = <<>>
    /\ spc = "fetch"
    /\ failure = None
    /\ midLineSplit = FALSE
    /\ fullResponse = <<>>
    /\ streamingMessage = <<>>
    /\ assistantMessage = NewAssistantMessage
    /\ appended = NoMessage
    /\ SessionStart

StreamInit == StreamInitOf(FrameSeqs)

\* await fetch(...); if (!response.ok) throw ...; if (!reader) throw ...
FetchResponse ==
    /\ spc = "fetch"
    /\ \E outcome \in {"ok", "network", "status", "nobody"} :
         IF outcome = "ok"
         THEN spc' = "reading" /\ failure' = failure
         ELSE spc' = "threw" /\ failure' = outcome
    /\ UNCHANGED <<frames, lastTerminated, body, pos, buffer, totalContent,
                   tokenCount, calls, midLineSplit, fullResponse,
                   streamingMessage, assistantMessage, appended>>

\* one iteration of while (true): a read that returns n more characters
ReadChunk ==
    /\ spc = "reading"
    /\ pos < Len(body)
    /\ \E n \in 1..(Len(body) - pos) :
         LET value == SubSeq(body, pos + 1, pos + n)
             lines == split(buffer \o value, NL)
         IN \E st \in {processLines(LoopState, completeLines(lines))} :
            /\ pos' = pos + n
            /\ buffer' = nextBuffer(lines)
            /\ midLineSplit' = (midLineSplit \/ nextBuffer(lines) # <<>>)
            /\ totalContent' = st.totalContent
            /\ tokenCount' = st.tokenCount
            /\ calls' = st.calls
            /\ fullResponse' = st.fullResponse
            /\ streamingMessage' = st.streamingMessage
            /\ assistantMessage' = st.assistantMessage
            /\ spc' = IF st.threw THEN "threw"
                      ELSE IF st.returned THEN "returned" ELSE "reading"
            /\ failure' = IF st.threw THEN "parse" ELSE failure
    /\ UNCHANGED <<frames, lastTerminated, body, appended>>

\* reader.read() resolves with done: break, and the function returns
ReadEnd ==
    /\ spc = "reading"
    /\ pos = Len(body)
    /\ spc' = "returned"
    /\ UNCHANGED <<frames, lastTerminated, body, pos, buffer, totalContent,
                   tokenCount, calls, failure, midLineSplit, fullResponse,
                   streamingMessage, assistantMessage, appended>>

\* reader.read() rejects: the connection broke
ReadFail ==
    /\ spc = "reading"
    /\ spc' = "threw"
    /\ failure' = "network"
    /\ UNCHANGED <<frames, lastTerminated, body, pos, buffer, totalContent,
                   tokenCount, calls, midLineSplit, fullResponse,
                   streamingMessage, assistantMessage, appended>>

\* fullResponse.split(' ').length
countTokens(text) == Len(split(text, " "))

\* sendMessage after the await: content and tokens are filled in and the
\* message is appended; finally clears the streaming text
FinishSend ==
    /\ spc = "returned"
    /\ spc' = "done"
    /\ appended' = [assistantMessage EXCEPT !.content = fullResponse,
                                            !.tokens = countTokens(fullResponse)]
    /\ assistantMessage' = appended'
    /\ streamingMessage' = <<>>
    /\ UNCHANGED <<frames, lastTerminated, body, pos, buffer, totalContent,
                   tokenCount, calls, failure, midLineSplit, fullResponse>>

ErrorText == <<"!">>

\* sendMessage's catch: an error message is appended instead
FailSend ==
    /\ spc = "threw"
    /\ spc' = "failed"
    /\ appended' = NewMessage(2, "assistant", ErrorText)
    /\ streamingMessage' = <<>>
    /\ UNCHANGED <<frames, lastTerminated, body, pos, buffer, totalContent,
                   tokenCount, calls, failure, midLineSplit, fullResponse,
                   assistantMessage>>

StreamNext ==
    \/ FetchResponse /\ UNCHANGED <<sessionVars, newVars>>
    \/ ReadChunk /\ UNCHANGED <<sessionVars, newVars>>
    \/ ReadEnd /\ UNCHANGED <<sessionVars, newVars>>
    \/ ReadFail /\ UNCHANGED <<sessionVars, newVars>>
    \/ FinishSend /\ UNCHANGED <<sessionVars, newVars>>
    \/ FailSend /\ UNCHANGED <<sessionVars, newVars>>

SpecStream == StreamInit /\ [][StreamNext]_vars

\* Replies written in two alphabets, with digits between the letters.
LanguageFrames ==
    {DeltaFrame(<<"ya">>), DeltaFrame(<<"a">>), DeltaFrame(<<"1">>), DoneFrame}

LanguageFrameSeqs == UNION {[1..n -> LanguageFrames] : n \in 0..MaxFrames}

SpecLanguage == StreamInitOf(LanguageFrameSeqs) /\ [][StreamNext]_vars

\* ------------------------------------------------------------------------
\* ChatInterface: helpers of the session handlers
\* ------------------------------------------------------------------------
MaxSessionIds == 2
MaxSends == 2
MaxChunks == 1
MaxEdits == 2
MaxImports == 2

\* what the user may type into the input box
Prompts == {<<"h">>}

\* what the user may change a message to
Texts == {<<"h">>, <<"h", " ", "i">>}

\* what the model may stream, one delta at a time
Deltas == {<<"a">>}

\* 'Новый чат'
DefaultTitle == <<"N">>

\* '...'
Ellipsis == <<".", ".", ".">>

ZeroStatistics ==
    [totalMessages |-> 0, totalTokens |-> 0, totalCost |-> 0,
     sentimentDistribution |-> [positive |-> 0, negative |-> 0, neutral |-> 0]]

Ids(list) == {list[i].id : i \in 1..Len(list)}

\* Array.prototype.find by id: the first match, or null
HasSession(list, id) == \E i \in 1..Len(list) : list[i].id = id

FindSession(list, id) ==
    list[CHOOSE i \in 1..Len(list) :
            /\ list[i].id = id
            /\ \A j \in 1..(i - 1) : list[j].id # id]

\* { ...session, ...updates }
Merge(session, updates) ==
    [f \in DOMAIN session |-> IF f \in DOMAIN updates THEN updates[f] ELSE session[f]]

\* The setter useLocalStorage returns, called with an updater function:
\* setSessions(prev => ...) stores what the updater makes of the latest value
\* of the collection. `latest` is that value (the stored one, or the result of
\* an earlier call in the same handler), `updated` the updater's result for it.
setSessions(latest, updated) == updated

\* mutant: an id that matches nothing falls on the first session
updateSessionMapFallback(prev, sessionId, updates) ==
    [i \in 1..Len(prev) |->
        IF prev[i].id = sessionId \/ (i = 1 /\ ~HasSession(prev, sessionId))
        THEN [Merge(prev[i], updates) EXCEPT !.updatedAt = Date(now)]
        ELSE prev[i]]

\* the updater of updateSession: prev.map(session => session.id === sessionId
\*   ? { ...session, ...updates, updatedAt } : session)
updateSessionMap(prev, sessionId, updates) ==
    [i \in 1..Len(prev) |->
        IF prev[i].id = sessionId
        THEN [Merge(prev[i], updates) EXCEPT !.updatedAt = Date(now)]
        ELSE prev[i]]

updateSession(cur, sessionId, updates) ==
    setSessions(cur, updateSessionMap(cur, sessionId, updates))

\* prev.filter(s => s.id !== sessionId)
RECURSIVE withoutSession(_, _)
withoutSession(list, sessionId) ==
    IF list = <<>> THEN <<>>
    ELSE IF Head(list).id = sessionId THEN withoutSession(Tail(list), sessionId)
    ELSE <<Head(list)>> \o withoutSession(Tail(list), sessionId)

\* the session createNewSession builds
newSession(id) ==
    [id |-> id, title |-> DefaultTitle, messages |-> <<>>,
     createdAt |-> Date(now), updatedAt |-> Date(now),
     tags |-> <<>>, category |-> "general", isArchived |-> FALSE, isFavorite |-> FALSE,
     settings |-> [model |-> config.model, temperature |-> config.temperature],
     statistics |-> ZeroStatistics]

\* createNewSession: setSessions(prev => [newSession, ...prev]);
\* setCurrentSessionId(newSession.id). ui is <<collection, selected id, next id>>.
createNewSession(ui) ==
    [sessions |-> setSessions(ui.sessions, <<newSession(ui.nextSid)>> \o ui.sessions),
     current |-> ui.nextSid,
     nextSid |-> ui.nextSid + 1]

\* useEffect(..., [sessions, currentSessionId]): runs after every render
initialSessionEffect(ui) ==
    IF Len(ui.sessions) = 0 THEN createNewSession(ui)
    ELSE IF ui.current = NoSession
         THEN [ui EXCEPT !.current = ui.sessions[1].id]
         ELSE ui

\* mutant: the selection is left alone when the selected session goes
deleteSessionKeepSelection(ui, sessionId) ==
    [ui EXCEPT !.sessions =
        setSessions(ui.sessions, withoutSession(ui.sessions, sessionId))]

\* deleteSession: the filter, then the choice of the next selection, which reads
\* the `sessions` and `currentSessionId` of the render the handler belongs to
deleteSession(ui, sessionId) ==
    LET filtered == [ui EXCEPT !.sessions =
                        setSessions(ui.sessions,
                                    withoutSession(ui.sessions, sessionId))]
        remainingSessions == withoutSession(ui.sessions, sessionId)
    IN IF ui.current = sessionId
       THEN IF Len(remainingSessions) > 0
            THEN [filtered EXCEPT !.current = remainingSessions[1].id]
            ELSE createNewSession(filtered)
       ELSE filtered

\* String.prototype.trim, for blanks
RECURSIVE trimStart(_)
trimStart(t) == IF t # <<>> /\ Head(t) = " " THEN trimStart(Tail(t)) ELSE t

RECURSIVE trimEnd(_)
trimEnd(t) ==
    IF t # <<>> /\ t[Len(t)] = " " THEN trimEnd(SubSeq(t, 1, Len(t) - 1)) ELSE t

trim(t) == trimEnd(trimStart(t))

\* Array.prototype.join
RECURSIVE join(_, _)
join(words, sep) ==
    IF words = <<>> THEN <<>>
    ELSE IF Len(words) = 1 THEN words[1]
    ELSE words[1] \o sep \o join(Tail(words), sep)

TitleWords == 6

\* generateTitle
generateTitle(content) ==
    LET all == split(trim(content), " ")
        words == SubSeq(all, 1, IF Len(all) < TitleWords THEN Len(all) ELSE TitleWords)
    IN join(words, <<" ">>) \o
       (IF Len(split(content, " ")) > TitleWords THEN Ellipsis ELSE <<>>)

\* reduce((sum, msg) => sum + (msg.tokens || 0), 0)
RECURSIVE sumTokens(_)
sumTokens(list) ==
    IF list = <<>> THEN 0 ELSE Head(list).tokens + sumTokens(Tail(list))

\* reduce((sum, msg) => sum + (msg.metadata?.cost || 0), 0)
RECURSIVE sumCost(_)
sumCost(list) ==
    IF list = <<>> THEN 0 ELSE Head(list).metadata.cost + sumCost(Tail(list))

\* filter(msg => msg.metadata?.sentiment === sentiment).length
countSentiment(list, sentiment) ==
    Len(SelectSeq(list, LAMBDA msg : msg.metadata.sentiment = sentiment))

\* newStats of sendMessage, over finalMessages
newStats(finalMessages) ==
    [totalMessages |-> Len(finalMessages),
     totalTokens |-> sumTokens(finalMessages),
     totalCost |-> sumCost(finalMessages),
     sentimentDistribution |->
        [positive |-> countSentiment(finalMessages, "positive"),
         negative |-> countSentiment(finalMessages, "negative"),
         neutral |-> countSentiment(finalMessages, "neutral")]]

\* getSessionStatistics of useAnalytics: the pure statistics function
getSessionStatistics(session) ==
    [totalMessages |-> Len(session.messages),
     totalTokens |-> sumTokens(session.messages),
     totalCost |-> sumCost(session.messages),
     sentimentDistribution |->
        [s \in {"positive", "negative", "neutral"} |->
            countSentiment(session.messages, s)]]

\* ------------------------------------------------------------------------
\* ChatInterface: the handlers (specification Spec)
\* ------------------------------------------------------------------------
\* what a handler sees of the collection: the values of the current render
UI == [sessions |-> sessions, current |-> currentSessionId, nextSid |-> nextSid]

\* the state updates of a handler are rendered, then the effects run
Commit(ui) ==
    LET r == initialSessionEffect(ui)
    IN /\ sessions' = r.sessions
       /\ currentSessionId' = r.current
       /\ nextSid' = r.nextSid

\* getCurrentSession
getCurrentSession == FindSession(sessions, currentSessionId)

InFlight(k) == sends[k].status = "inflight"

\* number of sends that have ended
Finished == Cardinality({j \in 1..Len(sends) : ~InFlight(j)})

\* first render and its effects
Mount ==
    /\ ~mounted
    /\ mounted' = TRUE
    /\ Commit(UI)
    /\ UNCHANGED <<cerebrasClient, config, isLoading, isStreaming, sends, nextMid,
                   firstContent, lastDelete, nEdits, nImports, streamVars, newVars>>

\* an API key is saved: useEffect(..., [config.apiKey]) creates the client
ConfigureClient ==
    /\ mounted
    /\ cerebrasClient = None
    /\ cerebrasClient' = "client"
    /\ UNCHANGED <<sessions, currentSessionId, mounted, config, isLoading,
                   isStreaming, sends, nextSid, nextMid, firstContent, lastDelete,
                   nEdits, nImports, streamVars, newVars>>

\* what the settings dialog may save
Models == {"llama3.1-8b", "llama3.1-70b"}

Temperatures == {DefaultTemperature, 2}

MaxClock == 1

\* time passes
Tick ==
    /\ now < MaxClock
    /\ now' = now + 1
    /\ UNCHANGED <<sessionVars, streamVars, reactionArrays, reacted, exported,
                   lastImport, filters, attachedFiles, lastValidation, attaching, lastEdit>>

\* onConfigChange={setConfig}: the settings dialog saves another model or
\* temperature
SetConfig ==
    /\ mounted
    /\ \E model \in Models, temperature \in Temperatures :
         /\ config' = [config EXCEPT !.model = model, !.temperature = temperature]
         /\ config' # config
    /\ UNCHANGED <<sessions, currentSessionId, mounted, cerebrasClient, isLoading,
                   isStreaming, sends, nextSid, nextMid, firstContent, lastDelete,
                   nEdits, nImports, streamVars, newVars>>

\* "new chat"
CreateNewSession ==
    /\ mounted
    /\ nextSid <= MaxSessionIds
    /\ Commit(createNewSession(UI))
    /\ UNCHANGED <<mounted, cerebrasClient, config, isLoading, isStreaming, sends,
                   nextMid, firstContent, lastDelete, nEdits, nImports, streamVars, newVars>>

\* onSelectSession={setCurrentSessionId}, with the id of a listed session
SelectSession ==
    /\ mounted
    /\ \E id \in Ids(sessions) :
         /\ id # currentSessionId
         /\ Commit([UI EXCEPT !.current = id])
    /\ UNCHANGED <<mounted, cerebrasClient, config, isLoading, isStreaming, sends,
                   nextMid, firstContent, lastDelete, nEdits, nImports, streamVars, newVars>>

\* onDeleteSession={deleteSession}, with the id of a listed session
DeleteSession ==
    /\ mounted
    /\ \E id \in Ids(sessions) :
         /\ nextSid <= MaxSessionIds \/ Len(withoutSession(sessions, id)) > 0
         /\ Commit(deleteSession(UI, id))
         /\ lastDelete' = [happened |-> TRUE,
                           wasSelected |-> (currentSessionId = id),
                           hadRemaining |-> Len(withoutSession(sessions, id)) > 0]
    /\ UNCHANGED <<mounted, cerebrasClient, config, isLoading, isStreaming, sends,
                   nextMid, firstContent, nEdits, nImports, streamVars, newVars>>

\* sendMessage up to its first await: the user message is appended to the
\* current session, the flags are set, the locals are captured by the closure
SendDispatchOf(prompts) ==
    /\ mounted
    /\ cerebrasClient # None
    /\ HasSession(sessions, currentSessionId)
    /\ Len(sends) < MaxSends
    /\ \E content \in prompts :
         LET currentSession == getCurrentSession
             userMessage == NewMessage(nextMid, "user", content)
             updatedMessages == Append(currentSession.messages, userMessage)
         IN /\ Commit([UI EXCEPT !.sessions =
                   updateSession(sessions, currentSession.id,
                       [messages |-> updatedMessages,
                        title |-> IF Len(currentSession.messages) = 0
                                  THEN generateTitle(content)
                                  ELSE currentSession.title])])
            /\ sends' = Append(sends,
                   [sid |-> currentSession.id,
                    before |-> currentSession.messages,
                    updatedMessages |-> updatedMessages,
                    assistantMessage |-> NewMessage(nextMid + 1, "assistant", <<>>),
                    stream |-> config.streamResponse,
                    model |-> config.model,
                    temperature |-> config.temperature,
                    fullResponse |-> <<>>,
                    chunks |-> 0,
                    status |-> "inflight",
                    during |-> {j \in 1..Len(sends) : InFlight(j)},
                    rank |-> 0,
                    orphan |-> FALSE])
            /\ firstContent' = firstContent \o <<content, <<>> >>
    /\ nextMid' = nextMid + 2
    /\ isLoading' = TRUE
    /\ isStreaming' = TRUE
    /\ streamingMessage' = <<>>
    /\ UNCHANGED <<mounted, cerebrasClient, config, lastDelete, nEdits, nImports,
                   streamRest, newVars>>

SendDispatch == SendDispatchOf(Prompts)

\* prompts of several words, as ChatInput submits them (message.trim()):
\* six words, seven words, six words with two spaces between the first two,
\* seven words with a line break between the first two
TitlePrompts ==
    {<<"a">>,
     <<"a", " ", "b", " ", "c", " ", "d", " ", "e", " ", "f">>,
     <<"a", " ", "b", " ", "c", " ", "d", " ", "e", " ", "f", " ", "g">>,
     <<"a", " ", " ", "b", " ", "c", " ", "d", " ", "e", " ", "f">>,
     <<"a", NL, "b", " ", "c", " ", "d", " ", "e", " ", "f", " ", "g">>}

SendTitled == SendDispatchOf(TitlePrompts)

\* the onChunk callback of a streamed send
SendChunk ==
    /\ \E k \in 1..Len(sends), delta \in Deltas :
         /\ InFlight(k)
         /\ sends[k].stream
         /\ sends[k].chunks < MaxChunks
         /\ sends' = [sends EXCEPT ![k].fullResponse = @ \o delta,
                                   ![k].chunks = @ + 1]
         /\ streamingMessage' = sends[k].fullResponse \o delta
    /\ UNCHANGED <<sessionVarsButSends, streamRest, newVars>>

\* finally { setIsLoading(false); setIsStreaming(false); setStreamingMessage('') }
Finally ==
    /\ isLoading' = FALSE
    /\ isStreaming' = FALSE
    /\ streamingMessage' = <<>>

\* mutant: the reply goes to the session that is selected now
FinishSendMessageToCurrent(k, content, metadata) ==
    LET assistant == [sends[k].assistantMessage EXCEPT
                          !.metadata = metadata,
                          !.content = content,
                          !.tokens = countTokens(content)]
        finalMessages == Append(sends[k].updatedMessages, assistant)
    IN /\ Commit([UI EXCEPT !.sessions =
              updateSession(sessions, currentSessionId,
                  [messages |-> finalMessages,
                   statistics |-> newStats(finalMessages)])])
       /\ sends' = [sends EXCEPT ![k].status = "done",
                                 ![k].rank = Finished + 1,
                                 ![k].assistantMessage = assistant,
                                 ![k].orphan = ~HasSession(sessions, sends[k].sid)]
       /\ firstContent' = [firstContent EXCEPT ![assistant.id] = content]
       /\ Finally
       /\ UNCHANGED <<mounted, cerebrasClient, config, nextMid, lastDelete, nEdits,
                      nImports, streamRest, newVars>>

\* sendMessage after the await of a call that returned: the assistant message
\* is completed and appended to the captured history, the statistics are
\* recomputed over it, and the session with the captured id is updated
FinishSendMessage(k, content, metadata) ==
    LET assistant == [sends[k].assistantMessage EXCEPT
                          !.metadata = metadata,
                          !.content = content,
                          !.tokens = countTokens(content)]
        finalMessages == Append(sends[k].updatedMessages, assistant)
    IN /\ Commit([UI EXCEPT !.sessions =
              updateSession(sessions, sends[k].sid,
                  [messages |-> finalMessages,
                   statistics |-> newStats(finalMessages)])])
       /\ sends' = [sends EXCEPT ![k].status = "done",
                                 ![k].rank = Finished + 1,
                                 ![k].assistantMessage = assistant,
                                 ![k].orphan = ~HasSession(sessions, sends[k].sid)]
       /\ firstContent' = [firstContent EXCEPT ![assistant.id] = content]
       /\ Finally
       /\ UNCHANGED <<mounted, cerebrasClient, config, nextMid, lastDelete, nEdits,
                      nImports, streamRest, newVars>>

\* sendMessageStream returns: after onComplete (the terminator was read), or
\* without it (the body ended first)
SendSucceed ==
    \E k \in 1..Len(sends), completed \in BOOLEAN :
        /\ InFlight(k)
        /\ sends[k].stream
        /\ FinishSendMessage(k, sends[k].fullResponse,
               IF completed
               THEN streamMetadata(sends[k].fullResponse, sends[k].chunks,
                                   sends[k].model)
               ELSE NoMetadata)

\* mutant: the error message goes to the session that is selected now
SendFailToCurrent ==
    \E k \in 1..Len(sends) :
        LET errorMessage == NewMessage(nextMid, "assistant", ErrorText)
            errorMessages == Append(sends[k].updatedMessages, errorMessage)
        IN /\ InFlight(k)
           /\ Commit([UI EXCEPT !.sessions =
                  updateSession(sessions, currentSessionId,
                                [messages |-> errorMessages])])
           /\ sends' = [sends EXCEPT ![k].status = "failed",
                                     ![k].rank = Finished + 1,
                                     ![k].assistantMessage = errorMessage,
                                     ![k].orphan = ~HasSession(sessions, sends[k].sid)]
           /\ nextMid' = nextMid + 1
           /\ firstContent' = Append(firstContent, ErrorText)
           /\ Finally
           /\ UNCHANGED <<mounted, cerebrasClient, config, lastDelete, nEdits,
                          nImports, streamRest, newVars>>

\* the client call throws: catch appends an error message to the captured
\* history and updates the session with the captured id (messages only)
SendFail ==
    \E k \in 1..Len(sends) :
        LET errorMessage == NewMessage(nextMid, "assistant", ErrorText)
            errorMessages == Append(sends[k].updatedMessages, errorMessage)
        IN /\ InFlight(k)
           /\ Commit([UI EXCEPT !.sessions =
                  updateSession(sessions, sends[k].sid,
                                [messages |-> errorMessages])])
           /\ sends' = [sends EXCEPT ![k].status = "failed",
                                     ![k].rank = Finished + 1,
                                     ![k].assistantMessage = errorMessage,
                                     ![k].orphan = ~HasSession(sessions, sends[k].sid)]
           /\ nextMid' = nextMid + 1
           /\ firstContent' = Append(firstContent, ErrorText)
           /\ Finally
           /\ UNCHANGED <<mounted, cerebrasClient, config, lastDelete, nEdits,
                          nImports, streamRest, newVars>>

\* the message handleMessageEdit puts in place of msg
editedMessage(msg, newContent) ==
    [msg EXCEPT !.content = newContent, !.isEdited = TRUE,
                !.originalContent = msg.content]

\* handleMessageEdit, on a message of the current session
HandleMessageEdit ==
    /\ mounted
    /\ nEdits < MaxEdits
    /\ HasSession(sessions, currentSessionId)
    /\ LET currentSession == getCurrentSession
       IN \E messageId \in Ids(currentSession.messages), newContent \in Texts :
            /\ \E i \in 1..Len(currentSession.messages) :
                  /\ currentSession.messages[i].id = messageId
                  /\ currentSession.messages[i].content # newContent
            /\ Commit([UI EXCEPT !.sessions =
                   updateSession(sessions, currentSession.id,
                       [messages |->
                           [i \in 1..Len(currentSession.messages) |->
                               IF currentSession.messages[i].id = messageId
                               THEN editedMessage(currentSession.messages[i],
                                                  newContent)
                               ELSE currentSession.messages[i]]])])
    /\ nEdits' = nEdits + 1
    /\ UNCHANGED <<mounted, cerebrasClient, config, isLoading, isStreaming, sends,
                   nextMid, firstContent, lastDelete, nImports, streamVars, newVars>>

\* ------------------------------------------------------------------------
\* exportSessions and importSessions: JSON.stringify and JSON.parse
\* ------------------------------------------------------------------------
\* Date.prototype.toJSON: the ISO string of the instant. Every other value
\* is written as it is.
toJSON(v) == IF v.kind = "Date" THEN [kind |-> "string", ms |-> v.ms] ELSE v

\* the value of a message with its `reactions` array written out: no array
\* (undefined) is the empty set, an array the set holding its entries
deepMessage(m, heap) ==
    [m EXCEPT !.reactions = IF m.reactions = NoArray THEN {} ELSE {heap[m.reactions]}]

deepSession(session, heap) ==
    [session EXCEPT !.messages =
        [j \in 1..Len(session.messages) |-> deepMessage(session.messages[j], heap)]]

\* a collection by value
Deep(collection, heap) ==
    [i \in 1..Len(collection) |-> deepSession(collection[i], heap)]

\* what JSON.stringify writes for a message and for a session
stringifyMessage(m, heap) ==
    [deepMessage(m, heap) EXCEPT !.timestamp = toJSON(@)]

stringifySession(session, heap) ==
    [session EXCEPT
        !.createdAt = toJSON(@),
        !.updatedAt = toJSON(@),
        !.messages = [j \in 1..Len(session.messages) |->
                         stringifyMessage(session.messages[j], heap)]]

\* JSON.stringify(sessions, null, 2): the JSON value of the text
JSONstringify(collection, heap) ==
    [i \in 1..Len(collection) |-> stringifySession(collection[i], heap)]

\* the places <<session, message>> of a parsed collection that hold a
\* reactions array, and their rank in the order JSON.parse builds them
arrayPlaces(json) ==
    UNION {{<<i, j>> : j \in {j \in 1..Len(json[i].messages) :
                                json[i].messages[j].reactions # {}}} :
           i \in 1..Len(json)}

placeBefore(p, q) == p[1] < q[1] \/ (p[1] = q[1] /\ p[2] < q[2])

placeRank(json, p) == Cardinality({q \in arrayPlaces(json) : placeBefore(q, p)}) + 1

\* the objects JSON.parse builds from the JSON value of a list of sessions:
\* strings stay strings, every array is a new array
parsedSessions(json, heap) ==
    [i \in 1..Len(json) |->
        [json[i] EXCEPT !.messages =
            [j \in 1..Len(json[i].messages) |->
                [json[i].messages[j] EXCEPT !.reactions =
                    IF @ = {} THEN NoArray
                    ELSE Len(heap) + placeRank(json, <<i, j>>)]]]]

parsedArrays(json) ==
    [k \in 1..Cardinality(arrayPlaces(json)) |->
        LET p == CHOOSE q \in arrayPlaces(json) : placeRank(json, q) = k
        IN CHOOSE entries \in json[p[1]].messages[p[2]].reactions : TRUE]

\* a session exported by another installation
ForeignSession ==
    [id |-> -1, title |-> <<"f">>, messages |-> <<>>,
     createdAt |-> Date(0), updatedAt |-> Date(0),
     tags |-> <<>>, category |-> "general", isArchived |-> FALSE, isFavorite |-> FALSE,
     settings |-> [model |-> DefaultModel, temperature |-> DefaultTemperature],
     statistics |-> ZeroStatistics]

\* an element of an imported list that is not a session (a character of a
\* JSON string, a number): every property of it reads as undefined
NotASession ==
    [id |-> -2, title |-> <<>>, messages |-> <<>>,
     createdAt |-> [kind |-> "undefined", ms |-> 0],
     updatedAt |-> [kind |-> "undefined", ms |-> 0],
     tags |-> <<>>, category |-> None, isArchived |-> FALSE, isFavorite |-> FALSE,
     settings |-> [model |-> None, temperature |-> 0],
     statistics |-> ZeroStatistics]

\* the files the user may pick: text that is not JSON, the JSON of a
\* two-character string, a foreign export, the file exportSessions saved
Payloads == {"notjson", "jsonstring", "foreign", "own"}

\* exportSessions: the collection is written to a file
ExportSessions ==
    /\ mounted
    /\ exported' = [saved |-> TRUE,
                    json |-> JSONstringify(sessions, reactionArrays),
                    from |-> Deep(sessions, reactionArrays)]
    /\ exported' # exported
    /\ UNCHANGED <<sessionVars, streamVars, now, reactionArrays, reacted, lastImport,
                   filters, attachedFiles, lastValidation, attaching, lastEdit>>

\* importSessions, when the file has been read. JSON.parse throws on text
\* that is not JSON: the catch shows the error. Otherwise the parsed value
\* is spread in front of the collection and the success toast is shown: a
\* list of sessions gives its sessions, a JSON string gives its characters.
ImportSessions ==
    /\ mounted
    /\ nImports < MaxImports
    /\ \E payload \in Payloads :
         /\ payload = "own" => exported.saved
         /\ IF payload = "notjson"
            THEN /\ UNCHANGED <<sessions, currentSessionId, nextSid, reactionArrays>>
                 /\ lastImport' = [payload |-> payload, toast |-> "error",
                                   content |-> <<>>, original |-> <<>>,
                                   before |-> Deep(sessions, reactionArrays),
                                   after |-> Deep(sessions, reactionArrays)]
            ELSE LET json == CASE payload = "own" -> exported.json
                               [] payload = "foreign" ->
                                    JSONstringify(<<ForeignSession>>, reactionArrays)
                               [] OTHER -> <<>>
                     importedSessions ==
                         IF payload = "jsonstring" THEN <<NotASession, NotASession>>
                         ELSE parsedSessions(json, reactionArrays)
                 IN /\ Commit([UI EXCEPT !.sessions =
                           setSessions(sessions, importedSessions \o sessions)])
                    /\ reactionArrays' = reactionArrays \o parsedArrays(json)
                    /\ lastImport' =
                          [payload |-> payload, toast |-> "done", content |-> json,
                           original |-> IF payload = "own" THEN exported.from ELSE <<>>,
                           before |-> Deep(sessions, reactionArrays),
                           after |-> Deep(sessions', reactionArrays')]
    /\ nImports' = nImports + 1
    /\ UNCHANGED <<mounted, cerebrasClient, config, isLoading, isStreaming, sends,
                   nextMid, firstContent, lastDelete, nEdits, streamVars, now,
                   reacted, exported, filters, attachedFiles, lastValidation,
                   attaching, lastEdit>>


\* no request under way
IdleStream ==
    /\ frames = <<>>
    /\ lastTerminated = TRUE
    /\ body = <<>>
    /\ pos = 0
    /\ buffer = <<>>
    /\ totalContent = <<>>
    /\ tokenCount = 0
    /\ calls = <<>>
    /\ spc = "idle"
    /\ failure = None
    /\ midLineSplit = FALSE
    /\ fullResponse = <<>>
    /\ streamingMessage = <<>>
    /\ assistantMessage = NoMessage
    /\ appended = NoMessage

Init == SessionStart /\ IdleStream

\* ------------------------------------------------------------------------
\* useSearch: the filtered view of the collection
\* ------------------------------------------------------------------------
\* String.prototype.toLowerCase, over the letters the model writes
lowerChar(c) ==
    CASE c = "A" -> "a"
      [] c = "H" -> "h"
      [] c = "N" -> "n"
      [] c = "P" -> "p"
      [] c = "Y" -> "y"
      [] OTHER -> c

toLowerCase(text) == [i \in 1..Len(text) |-> lowerChar(text[i])]

\* a filter dimension is undefined, or holds a value
IsSet(dimension) == dimension # {}

ValueOf(dimension) == CHOOSE v \in dimension : TRUE

\* a < b and a > b of JavaScript when b is a Date: a Date compares by its
\* instant; an ISO string is converted to a number, gives NaN, and every
\* comparison with NaN is false
lessThan(a, b) == a.kind = "Date" /\ a.ms < b.ms

greaterThan(a, b) == a.kind = "Date" /\ a.ms > b.ms

\* Array.prototype.some over a sequence of messages
hasRole(messages, role) == \E j \in 1..Len(messages) : messages[j].role = role

anyFiles(messages) ==
    \E j \in 1..Len(messages) : Len(messages[j].files) > 0

\* if (filters.query) { ... if (!titleMatch && !messageMatch) return false }
passesQuery(session, f) ==
    IF IsSet(f.query) /\ ValueOf(f.query) # <<>>
    THEN LET query == toLowerCase(ValueOf(f.query))
             titleMatch == includes(toLowerCase(session.title), query)
             messageMatch ==
                 \E j \in 1..Len(session.messages) :
                     includes(toLowerCase(session.messages[j].content), query)
         IN titleMatch \/ messageMatch
    ELSE TRUE

\* if (filters.dateFrom && session.createdAt < filters.dateFrom) return false
\* if (filters.dateTo && session.createdAt > filters.dateTo) return false
passesDates(session, f) ==
    /\ ~(IsSet(f.dateFrom) /\ lessThan(session.createdAt, ValueOf(f.dateFrom)))
    /\ ~(IsSet(f.dateTo) /\ greaterThan(session.createdAt, ValueOf(f.dateTo)))

\* if (filters.tags && filters.tags.length > 0) { ... }
passesTags(session, f) ==
    IF IsSet(f.tags) /\ Len(ValueOf(f.tags)) > 0
    THEN \E i \in 1..Len(ValueOf(f.tags)) :
            \E j \in 1..Len(session.tags) : session.tags[j] = ValueOf(f.tags)[i]
    ELSE TRUE

\* if (filters.category && session.category !== filters.category) return false
passesCategory(session, f) ==
    ~(IsSet(f.category) /\ ValueOf(f.category) # "" /\
      session.category # ValueOf(f.category))

\* if (filters.messageType) { if (!session.messages.some(...)) return false }
passesMessageType(session, f) ==
    IsSet(f.messageType) => hasRole(session.messages, ValueOf(f.messageType))

\* mutant: the test for undefined is left out, and undefined compares as false
passesHasFilesUnguarded(session, f) ==
    anyFiles(session.messages) = (IsSet(f.hasFiles) /\ ValueOf(f.hasFiles))

\* if (filters.hasFiles !== undefined) { if (hasFiles !== filters.hasFiles) return false }
passesHasFiles(session, f) ==
    IsSet(f.hasFiles) => anyFiles(session.messages) = ValueOf(f.hasFiles)

\* if (filters.sentiment) { if (!hasSentiment) return false }
passesSentiment(session, f) ==
    IsSet(f.sentiment) =>
        \E j \in 1..Len(session.messages) :
            session.messages[j].metadata.sentiment = ValueOf(f.sentiment)

\* the callback of sessions.filter
keepSession(session, f) ==
    /\ passesQuery(session, f)
    /\ passesDates(session, f)
    /\ passesTags(session, f)
    /\ passesCategory(session, f)
    /\ passesMessageType(session, f)
    /\ passesHasFiles(session, f)
    /\ passesSentiment(session, f)

\* useMemo(() => sessions.filter(...), [sessions, filters])
filteredSessions == SelectSeq(sessions, LAMBDA session : keepSession(session, filters))

\* the values setFilters may be given, dimension by dimension
FilterValues ==
    [query |-> {{}, {<<>>}, {<<"a">>}, {<<"H">>}},
     dateFrom |-> {{}, {Date(1)}},
     dateTo |-> {{}, {Date(1)}},
     tags |-> {{}, {<<>>}, {<<"x">>}},
     category |-> {{}, {"work"}},
     messageType |-> {{}, {"user"}, {"assistant"}},
     hasFiles |-> {{}, {TRUE}, {FALSE}},
     sentiment |-> {{}, {"positive"}}]

\* setFilters({ ...filters, [dimension]: value })
SetFilters ==
    /\ \E dimension \in DOMAIN FilterValues :
         \E value \in FilterValues[dimension] :
            /\ filters[dimension] # value
            /\ filters' = [filters EXCEPT ![dimension] = value]
    /\ UNCHANGED <<sessionVars, streamVars, now, reactionArrays, reacted, exported,
                   lastImport, attachedFiles, lastValidation, attaching, lastEdit>>

\* ------------------------------------------------------------------------
\* Collections found in storage when the component is constructed
\* ------------------------------------------------------------------------
MaxStored == 2

\* a session as an earlier run or an import left it
StoredSession(id, title, createdAt, tags, category, messages) ==
    [id |-> id, title |-> title, messages |-> messages,
     createdAt |-> createdAt, updatedAt |-> createdAt,
     tags |-> tags, category |-> category, isArchived |-> FALSE, isFavorite |-> FALSE,
     settings |-> [model |-> DefaultModel, temperature |-> DefaultTemperature],
     statistics |-> newStats(messages)]

\* toISOString of the instant ms: what an imported session has for a date
ISOString(ms) == [kind |-> "string", ms |-> ms]

\* a user message, a user message with an attached file, an assistant reply
\* with its metadata
StoredUserMessage == MessageAt(101, "user", <<"h">>, 0)

StoredFileMessage ==
    [MessageAt(102, "user", <<"H", "a">>, 0) EXCEPT
        !.files = <<[name |-> <<"f">>, type |-> <<"t">>, size |-> 1]>>]

StoredReply ==
    [MessageAt(103, "assistant", <<"a">>, 0) EXCEPT
        !.metadata = streamMetadata(<<"a">>, 1, DefaultModel),
        !.tokens = 1]

\* sessions that differ in every field useSearch reads; the fourth was imported
SearchPool ==
    {StoredSession(11, DefaultTitle, Date(1), <<>>, "general", <<>>),
     StoredSession(12, <<"H", "a">>, Date(0), <<"x">>, "work", <<StoredUserMessage>>),
     StoredSession(13, <<"h">>, Date(2), <<"y", "x">>, "general",
                   <<StoredFileMessage, StoredReply>>),
     StoredSession(14, <<"h">>, ISOString(0), <<>>, "general",
                   <<StoredUserMessage, StoredReply>>),
     StoredSession(15, <<"b">>, Date(1), <<"y">>, "work", <<StoredReply>>)}

Collections(pool) == UNION {[1..n -> pool] : n \in 0..MaxStored}

\* useSearch over a stored collection
SearchInit ==
    /\ \E stored \in Collections(SearchPool) : StartWith(stored)
    /\ IdleStream

SearchNext == SetFilters

SpecSearch == SearchInit /\ [][SearchNext]_vars

\* ------------------------------------------------------------------------
\* useAnalytics: the aggregate of the collection
\* ------------------------------------------------------------------------
\* sessions.reduce((sum, session) => sum + session.messages.length, 0)
RECURSIVE totalMessagesOf(_)
totalMessagesOf(list) ==
    IF list = <<>> THEN 0 ELSE Len(Head(list).messages) + totalMessagesOf(Tail(list))

\* sessions.reduce((sum, session) => sum + session.messages.reduce(tokens), 0)
RECURSIVE totalTokensOf(_)
totalTokensOf(list) ==
    IF list = <<>> THEN 0 ELSE sumTokens(Head(list).messages) + totalTokensOf(Tail(list))

\* mutant: the accumulator is dropped, the last session's sum is the result
totalCostOfLast(list) ==
    IF list = <<>> THEN 0 ELSE sumCost(list[Len(list)].messages)

\* sessions.reduce((sum, session) => sum + session.messages.reduce(cost), 0)
RECURSIVE totalCostOf(_)
totalCostOf(list) ==
    IF list = <<>> THEN 0 ELSE sumCost(Head(list).messages) + totalCostOf(Tail(list))

\* session.createdAt.toISOString() of activityByDay: a TypeError when
\* createdAt is not a Date, and then the whole computation throws
activityByDayThrows(list) ==
    \E i \in 1..Len(list) : list[i].createdAt.kind # "Date"

\* acc[topic] = (acc[topic] || 0) + 1. acc is the object as Object.entries
\* lists it: the keys in the order they were first set (topic names are not
\* integer-like), each with its count
countTopic(acc, topic) ==
    IF \E n \in 1..Len(acc) : acc[n].topic = topic
    THEN LET n == CHOOSE m \in 1..Len(acc) : acc[m].topic = topic
         IN [acc EXCEPT ![n].count = @ + 1]
    ELSE Append(acc, [topic |-> topic, count |-> 1])

\* msg.metadata.topics.forEach(topic => ...): the topics before the last
\* one are counted first
RECURSIVE countTopics(_, _)
countTopics(acc, topics) ==
    IF topics = <<>> THEN acc
    ELSE countTopic(countTopics(acc, SubSeq(topics, 1, Len(topics) - 1)),
                    topics[Len(topics)])

\* session.messages.forEach(msg => ...)
RECURSIVE countMessages(_, _)
countMessages(acc, messages) ==
    IF messages = <<>> THEN acc
    ELSE countTopics(countMessages(acc, SubSeq(messages, 1, Len(messages) - 1)),
                     messages[Len(messages)].metadata.topics)

\* sessions.reduce((acc, session) => ..., {})
RECURSIVE topicCounts(_, _)
topicCounts(acc, list) ==
    IF list = <<>> THEN acc
    ELSE countMessages(topicCounts(acc, SubSeq(list, 1, Len(list) - 1)),
                       list[Len(list)].messages)

\* mutant: an entry goes in front of the entries with the same count
insertByCountFirst(sorted, e) ==
    LET n == Cardinality({m \in 1..Len(sorted) : sorted[m].count > e.count})
    IN SubSeq(sorted, 1, n) \o <<e>> \o SubSeq(sorted, n + 1, Len(sorted))

\* Array.prototype.sort with (a, b) => b - a, which is stable: an entry
\* goes behind every entry with a count at least its own
insertByCount(sorted, e) ==
    LET n == Cardinality({m \in 1..Len(sorted) : sorted[m].count >= e.count})
    IN SubSeq(sorted, 1, n) \o <<e>> \o SubSeq(sorted, n + 1, Len(sorted))

RECURSIVE sortByCount(_, _)
sortByCount(sorted, entries) ==
    IF entries = <<>> THEN sorted
    ELSE sortByCount(insertByCount(sorted, Head(entries)), Tail(entries))

TopTopics == 10

\* Object.entries(topicCounts).sort(...).slice(0, 10).map(...)
topTopicsOf(list) ==
    LET sorted == sortByCount(<<>>, topicCounts(<<>>, list))
    IN SubSeq(sorted, 1, IF Len(sorted) < TopTopics THEN Len(sorted) ELSE TopTopics)

\* useMemo(() => { ... }, [sessions]): the aggregate, or the exception
analytics ==
    IF activityByDayThrows(sessions)
    THEN [threw |-> TRUE, totalSessions |-> 0, totalMessages |-> 0,
          totalTokens |-> 0, totalCost |-> 0, topTopics |-> <<>>]
    ELSE [threw |-> FALSE,
          totalSessions |-> Len(sessions),
          totalMessages |-> totalMessagesOf(sessions),
          totalTokens |-> totalTokensOf(sessions),
          totalCost |-> totalCostOf(sessions),
          topTopics |-> topTopicsOf(sessions)]

\* replies with a cost and a topic list
StoredReplyOf(cost, topics) ==
    [MessageAt(103, "assistant", <<"a">>, 0) EXCEPT
        !.metadata = [model |-> DefaultModel, cost |-> cost, language |-> "en",
                      sentiment |-> "positive", topics |-> topics],
        !.tokens = 1]

\* 0.01 and 0.02 dollar, in the unit of calculateCost
Cent == 1000

ReplyA == StoredReplyOf(Cent, <<"t1", "t2", "t3", "t4", "t5", "t6">>)

ReplyB == StoredReplyOf(2 * Cent, <<"t7", "t8", "t9", "t10", "t11", "t1">>)

ReplyC == StoredReplyOf(Cent, <<"t11", "t3">>)

ReplyD == StoredReplyOf(Cent, <<"t2">>)

\* a session of this installation (createdAt is a Date) with these messages
AnalysedSession(id, messages) ==
    StoredSession(id, <<"h">>, Date(0), <<>>, "general", messages)

ThreePairs ==
    AnalysedSession(21, <<StoredUserMessage, ReplyD, StoredUserMessage, ReplyD,
                          StoredUserMessage, ReplyD>>)

OnePair == AnalysedSession(22, <<StoredUserMessage, ReplyB>>)

AnalyticsPool ==
    {ThreePairs, OnePair,
     AnalysedSession(23, <<StoredUserMessage, ReplyA>>),
     AnalysedSession(24, <<>>),
     AnalysedSession(25, <<ReplyC, ReplyD, ReplyC>>),
     AnalysedSession(26, <<ReplyA>>)}

\* useAnalytics over a stored collection, with sessions selected and deleted
AnalyticsInit ==
    /\ \E stored \in Collections(AnalyticsPool) : StartWith(stored)
    /\ IdleStream

AnalyticsNext ==
    \/ Mount
    \/ SelectSession
    \/ DeleteSession

SpecAnalytics == AnalyticsInit /\ [][AnalyticsNext]_vars

\* ------------------------------------------------------------------------
\* fileUtils: validation and metadata of a picked file
\* ------------------------------------------------------------------------
\* String.prototype.endsWith
endsWith(s, p) == Len(s) >= Len(p) /\ SubSeq(s, Len(s) - Len(p) + 1, Len(s)) = p

textTypes ==
    {<<"t", "e", "x", "t", "/">>,
     <<"a", "p", "p", "l", "i", "c", "a", "t", "i", "o", "n", "/", "j", "s", "o", "n">>,
     <<"a", "p", "p", "l", "i", "c", "a", "t", "i", "o", "n", "/", "j", "a", "v", "a", "s", "c", "r", "i", "p", "t">>,
     <<"a", "p", "p", "l", "i", "c", "a", "t", "i", "o", "n", "/", "t", "y", "p", "e", "s", "c", "r", "i", "p", "t">>,
     <<"a", "p", "p", "l", "i", "c", "a", "t", "i", "o", "n", "/", "x", "m", "l">>,
     <<"a", "p", "p", "l", "i", "c", "a", "t", "i", "o", "n", "/", "c", "s", "v">>,
     <<"a", "p", "p", "l", "i", "c", "a", "t", "i", "o", "n", "/", "y", "a", "m", "l">>,
     <<"a", "p", "p", "l", "i", "c", "a", "t", "i", "o", "n", "/", "x", "-", "y", "a", "m", "l">>}

textExtensions ==
    {<<"t", "x", "t">>, <<"m", "d">>, <<"j", "s", "o", "n">>, <<"j", "s">>,
     <<"t", "s">>, <<"j", "s", "x">>, <<"t", "s", "x">>, <<"c", "s", "s">>,
     <<"h", "t", "m", "l">>, <<"x", "m", "l">>, <<"c", "s", "v">>, <<"p", "y">>,
     <<"j", "a", "v", "a">>, <<"c", "p", "p">>, <<"c">>, <<"h">>, <<"p", "h", "p">>,
     <<"r", "b">>, <<"g", "o">>, <<"r", "s">>, <<"s", "w", "i", "f", "t">>,
     <<"k", "t">>, <<"s", "c", "a", "l", "a">>, <<"s", "h">>, <<"y", "m", "l">>,
     <<"y", "a", "m", "l">>, <<"t", "o", "m", "l">>, <<"i", "n", "i">>,
     <<"c", "f", "g">>, <<"c", "o", "n", "f">>, <<"l", "o", "g">>, <<"s", "q", "l">>,
     <<"r">>, <<"m", "a", "t", "l", "a", "b">>, <<"p", "l">>, <<"l", "u", "a">>,
     <<"d", "a", "r", "t">>, <<"v", "u", "e">>, <<"s", "v", "e", "l", "t", "e">>}

\* textTypes.some(type => file.type.startsWith(type)) ||
\* textExtensions.some(ext => file.name.toLowerCase().endsWith(`.${ext}`))
isTextFile(file) ==
    \/ \E type \in textTypes : startsWith(file.type, type)
    \/ \E ext \in textExtensions : endsWith(toLowerCase(file.name), <<".">> \o ext)

\* the pairs of languageMap
languageMap ==
    {<<<<"j", "s">>, "javascript">>, <<<<"t", "s">>, "typescript">>,
     <<<<"j", "s", "x">>, "javascript">>, <<<<"t", "s", "x">>, "typescript">>,
     <<<<"p", "y">>, "python">>, <<<<"j", "a", "v", "a">>, "java">>,
     <<<<"c", "p", "p">>, "cpp">>, <<<<"c">>, "c">>, <<<<"h">>, "c">>,
     <<<<"p", "h", "p">>, "php">>, <<<<"r", "b">>, "ruby">>, <<<<"g", "o">>, "go">>,
     <<<<"r", "s">>, "rust">>, <<<<"s", "w", "i", "f", "t">>, "swift">>,
     <<<<"k", "t">>, "kotlin">>, <<<<"s", "c", "a", "l", "a">>, "scala">>,
     <<<<"s", "h">>, "bash">>, <<<<"s", "q", "l">>, "sql">>,
     <<<<"h", "t", "m", "l">>, "html">>, <<<<"c", "s", "s">>, "css">>,
     <<<<"x", "m", "l">>, "xml">>, <<<<"j", "s", "o", "n">>, "json">>,
     <<<<"y", "a", "m", "l">>, "yaml">>, <<<<"y", "m", "l">>, "yaml">>}

\* languageMap[filename.split('.').pop()?.toLowerCase() || ''] || 'text'
detectFileLanguage(filename) ==
    LET pieces == split(filename, ".")
        extension == toLowerCase(pieces[Len(pieces)])
    IN IF \E pair \in languageMap : pair[1] = extension
       THEN (CHOOSE pair \in languageMap : pair[1] = extension)[2]
       ELSE "text"

\* 50 * 1024 * 1024, the default of ChatInput's maxFileSize
maxFileSize == 52428800

allowedTypes ==
    {<<"t", "e", "x", "t", "/">>, <<"i", "m", "a", "g", "e", "/">>,
     <<"a", "p", "p", "l", "i", "c", "a", "t", "i", "o", "n", "/", "j", "s", "o", "n">>,
     <<"a", "p", "p", "l", "i", "c", "a", "t", "i", "o", "n", "/", "j", "a", "v", "a", "s", "c", "r", "i", "p", "t">>,
     <<"a", "p", "p", "l", "i", "c", "a", "t", "i", "o", "n", "/", "t", "y", "p", "e", "s", "c", "r", "i", "p", "t">>,
     <<"a", "p", "p", "l", "i", "c", "a", "t", "i", "o", "n", "/", "x", "m", "l">>,
     <<"a", "p", "p", "l", "i", "c", "a", "t", "i", "o", "n", "/", "c", "s", "v">>,
     <<"a", "p", "p", "l", "i", "c", "a", "t", "i", "o", "n", "/", "p", "d", "f">>,
     <<"a", "p", "p", "l", "i", "c", "a", "t", "i", "o", "n", "/", "y", "a", "m", "l">>,
     <<"a", "p", "p", "l", "i", "c", "a", "t", "i", "o", "n", "/", "x", "-", "y", "a", "m", "l">>}

\* mutant: the type is tested before the size
validateFileTypeFirst(file, maxSize) ==
    IF ~((\E type \in allowedTypes : startsWith(file.type, type)) \/ isTextFile(file))
    THEN [valid |-> FALSE, error |-> "unsupported-type"]
    ELSE IF file.size > maxSize
    THEN [valid |-> FALSE, error |-> "size-exceeded"]
    ELSE [valid |-> TRUE, error |-> None]

\* validateFile. The two error texts are 'Файл слишком большой. Максимальный
\* размер: ...' and 'Неподдерживаемый тип файла'.
validateFile(file, maxSize) ==
    IF file.size > maxSize
    THEN [valid |-> FALSE, error |-> "size-exceeded"]
    ELSE IF ~((\E type \in allowedTypes : startsWith(file.type, type)) \/ isTextFile(file))
    THEN [valid |-> FALSE, error |-> "unsupported-type"]
    ELSE [valid |-> TRUE, error |-> None]

\* extractFileMetadata: encoding and language of a text file
extractFileMetadata(file) ==
    IF isTextFile(file)
    THEN [encoding |-> "UTF-8", language |-> detectFileLanguage(file.name)]
    ELSE [encoding |-> None, language |-> None]

\* createAttachedFile (compressImage keeps the name and the type)
createAttachedFile(file) ==
    [name |-> file.name, type |-> file.type, size |-> file.size,
     metadata |-> extractFileMetadata(file)]

\* the default of ChatInput's maxFiles
maxFiles == 10

MaxAttached == 1

\* the files the user may pick
FileNames ==
    {<<"a", ".", "p", "y">>,
     <<"a", ".", "P", "Y">>,
     <<"p", "y">>,
     <<"a", ".", "b", "i", "n">>,
     <<"a", ".", "p", "y", ".", "b", "i", "n">>,
     <<"a", ".", "h">>}

FileTypes ==
    {<<>>,
     <<"t", "e", "x", "t", "/", "p", "l", "a", "i", "n">>,
     <<"a", "p", "p", "l", "i", "c", "a", "t", "i", "o", "n", "/", "o", "c", "t", "e", "t", "-", "s", "t", "r", "e", "a", "m">>,
     <<"i", "m", "a", "g", "e", "/", "p", "n", "g">>,
     <<"a", "p", "p", "l", "i", "c", "a", "t", "i", "o", "n", "/", "p", "d", "f">>}

FileSizes == {1024, maxFileSize, maxFileSize + 1, 60 * 1024 * 1024}

\* handleFileSelect with one file: too many files are refused as a whole;
\* an invalid file is reported and skipped; a valid file is read and
\* attached, unless reading it fails
HandleFileSelect ==
    /\ Len(attachedFiles) < MaxAttached
    /\ \E name \in FileNames, type \in FileTypes, size \in FileSizes, readable \in BOOLEAN :
         LET file == [name |-> name, type |-> type, size |-> size]
             validation == validateFile(file, maxFileSize)
         IN /\ Len(attachedFiles) + 1 <= maxFiles
            /\ lastValidation' = [checked |-> TRUE, valid |-> validation.valid,
                                  error |-> validation.error, file |-> file,
                                  attached |-> validation.valid /\ readable]
            /\ attachedFiles' =
                 IF validation.valid /\ readable
                 THEN Append(attachedFiles, createAttachedFile(file))
                 ELSE attachedFiles
    /\ UNCHANGED <<sessionVars, streamVars, now, reactionArrays, reacted, exported,
                   lastImport, filters, attaching, lastEdit>>

\* removeFile of ChatInput
RemoveFile ==
    /\ \E n \in 1..Len(attachedFiles) :
         attachedFiles' = SubSeq(attachedFiles, 1, n - 1) \o
                          SubSeq(attachedFiles, n + 1, Len(attachedFiles))
    /\ UNCHANGED <<sessionVars, streamVars, now, reactionArrays, reacted, exported,
                   lastImport, filters, lastValidation, attaching, lastEdit>>

FileNext ==
    \/ HandleFileSelect
    \/ RemoveFile

SpecFile == Init /\ [][FileNext]_vars

\* ------------------------------------------------------------------------
\* handleMessageReaction
\* ------------------------------------------------------------------------
MaxReacts == 3

Emojis == {"thumbsup", "heart"}

\* mutant: the entry is pushed without looking for the emoji
reactToAlwaysPush(entries, emoji) ==
    Append(entries, [emoji |-> emoji, count |-> 1, users |-> <<"user">>])

\* reactions.find(r => r.emoji === emoji): the first entry with the emoji
\* gets count += 1; without one, { emoji, count: 1, users: ['user'] } is pushed
reactTo(entries, emoji) ==
    IF \E n \in 1..Len(entries) : entries[n].emoji = emoji
    THEN LET first == CHOOSE n \in 1..Len(entries) :
                        /\ entries[n].emoji = emoji
                        /\ \A m \in 1..(n - 1) : entries[m].emoji # emoji
         IN [entries EXCEPT ![first].count = @ + 1]
    ELSE Append(entries, [emoji |-> emoji, count |-> 1, users |-> <<"user">>])

\* handleMessageReaction, on a message of the current session (message ids
\* are UUIDs: one message of the session has the id). The array the message
\* refers to is changed where it is, or a new array is made for a message
\* without one; the message is replaced by a copy that refers to the array.
HandleMessageReaction ==
    /\ mounted
    /\ Len(reacted) < MaxReacts
    /\ HasSession(sessions, currentSessionId)
    /\ LET currentSession == getCurrentSession
       IN \E j \in 1..Len(currentSession.messages), emoji \in Emojis :
            LET msg == currentSession.messages[j]
                reactions == IF msg.reactions = NoArray
                             THEN Len(reactionArrays) + 1
                             ELSE msg.reactions
            IN /\ reactionArrays' =
                    IF msg.reactions = NoArray
                    THEN Append(reactionArrays, reactTo(<<>>, emoji))
                    ELSE [reactionArrays EXCEPT ![reactions] = reactTo(@, emoji)]
               /\ Commit([UI EXCEPT !.sessions =
                      updateSession(sessions, currentSession.id,
                          [messages |-> [currentSession.messages EXCEPT
                                            ![j].reactions = reactions]])])
               /\ reacted' = Append(reacted, [sid |-> currentSession.id,
                                              mid |-> msg.id, emoji |-> emoji])
    /\ UNCHANGED <<mounted, cerebrasClient, config, isLoading, isStreaming, sends,
                   nextMid, firstContent, lastDelete, nEdits, nImports, streamVars,
                   now, exported, lastImport, filters, attachedFiles, lastValidation,
                   attaching, lastEdit>>

\* reactions on the messages of a stored collection of two sessions
ReactInit ==
    /\ StartWith(<<StoredSession(11, <<"h">>, Date(0), <<>>, "general",
                                 <<StoredUserMessage, StoredReply>>),
                   StoredSession(12, <<"h">>, Date(0), <<>>, "general",
                                 <<StoredUserMessage>>)>>)
    /\ IdleStream

ReactNext ==
    \/ Mount
    \/ SelectSession
    \/ HandleMessageEdit
    \/ HandleMessageReaction

SpecReact == ReactInit /\ [][ReactNext]_vars

\* ------------------------------------------------------------------------
\* createAttachedFile: four promises awaited together
\* ------------------------------------------------------------------------
\* file.type.startsWith('image/')
isImageFile(file) == startsWith(file.type, <<"i", "m", "a", "g", "e", "/">>)

\* the files createAttachedFile may be given: an image, a text file, a PDF,
\* a .py file without a MIME type and an image named as a text file
AttachFiles ==
    {[name |-> <<"a", ".", "p", "n", "g">>,
      type |-> <<"i", "m", "a", "g", "e", "/", "p", "n", "g">>, size |-> 1024],
     [name |-> <<"a", ".", "h">>,
      type |-> <<"t", "e", "x", "t", "/", "p", "l", "a", "i", "n">>, size |-> 1024],
     [name |-> <<"a">>,
      type |-> <<"a", "p", "p", "l", "i", "c", "a", "t", "i", "o", "n", "/",
                 "p", "d", "f">>, size |-> 1024],
     [name |-> <<"a", ".", "p", "y">>, type |-> <<>>, size |-> 1024],
     [name |-> <<"a", ".", "p", "y">>,
      type |-> <<"i", "m", "a", "g", "e", "/", "p", "n", "g">>, size |-> maxFileSize]}

\* createAttachedFile is called with a valid file: readFileAsText and
\* createThumbnail start a FileReader; createThumbnail resolves undefined at
\* once for a file that is no image; extractFileMetadata awaits an Image for
\* an image only; extractTextFromFile reads a text file and returns a fixed
\* text for a PDF, an image or any other file. Reading the file succeeds or
\* fails for every reader alike.
AttachBegin ==
    /\ attaching.outcome # "pending"
    /\ Len(attachedFiles) < MaxAttached
    /\ \E file \in AttachFiles, readable \in BOOLEAN :
         /\ validateFile(file, maxFileSize).valid
         /\ attaching' =
              [file |-> file, readable |-> readable,
               content |-> "pending",
               thumbnailReader |-> IF isImageFile(file) THEN "pending" ELSE None,
               thumbnail |-> IF isImageFile(file) THEN "pending" ELSE "undefined",
               metadata |-> IF isImageFile(file) THEN "pending" ELSE "resolved",
               extractedText |->
                   IF endsWith(file.type, <<"/", "p", "d", "f">>) \/ isImageFile(file)
                   THEN "resolved"
                   ELSE IF isTextFile(file) THEN "pending" ELSE "resolved",
               outcome |-> "pending"]
    /\ UNCHANGED <<sessionVars, streamVars, now, reactionArrays, reacted, exported,
                   lastImport, filters, attachedFiles, lastValidation, lastEdit>>

\* a promise of the call in progress changes
Settle(promise, state) ==
    /\ attaching' = [attaching EXCEPT ![promise] = state]
    /\ UNCHANGED <<sessionVars, streamVars, now, reactionArrays, reacted, exported,
                   lastImport, filters, attachedFiles, lastValidation, lastEdit>>

\* readFileAsText: reader.onload resolves, reader.onerror rejects
ContentRead ==
    /\ attaching.content = "pending"
    /\ Settle("content", IF attaching.readable THEN "resolved" ELSE "rejected")

\* extractTextFromFile of a text file: readFileAsText again
TextRead ==
    /\ attaching.extractedText = "pending"
    /\ Settle("extractedText", IF attaching.readable THEN "resolved" ELSE "rejected")

\* the FileReader of createThumbnail: onload sets img.src; there is no
\* onerror, a failed read leaves the promise pending
ThumbnailRead ==
    /\ attaching.thumbnailReader = "pending"
    /\ Settle("thumbnailReader", IF attaching.readable THEN "loaded" ELSE "failed")

\* mutant: img.onerror is not set, an image that does not decode leaves the
\* promise unsettled for good
ThumbnailImageNoOnError ==
    /\ attaching.thumbnailReader = "loaded"
    /\ attaching.thumbnail = "pending"
    /\ \E state \in {"dataURL", "unsettled"} : Settle("thumbnail", state)

\* the Image of createThumbnail: img.onload resolves the data URL of the
\* canvas, img.onerror resolves undefined
ThumbnailImage ==
    /\ attaching.thumbnailReader = "loaded"
    /\ attaching.thumbnail = "pending"
    /\ \E state \in {"dataURL", "undefined"} : Settle("thumbnail", state)

\* the Image of extractFileMetadata: onload gives the dimensions, onerror
\* rejects into the catch and the metadata is returned without them
MetadataImage ==
    /\ attaching.metadata = "pending"
    /\ \E state \in {"dimensions", "resolved"} : Settle("metadata", state)

\* Promise.all rejects as soon as one promise has rejected: handleFileSelect
\* catches and shows the error
AttachReject ==
    /\ attaching.outcome = "pending"
    /\ "rejected" \in {attaching.content, attaching.extractedText}
    /\ Settle("outcome", "rejected")

\* Promise.all resolves when the four promises have: the file is attached
AttachResolve ==
    /\ attaching.outcome = "pending"
    /\ attaching.content = "resolved"
    /\ attaching.extractedText = "resolved"
    /\ attaching.thumbnail \in {"dataURL", "undefined"}
    /\ attaching.metadata \in {"dimensions", "resolved"}
    /\ attaching' = [attaching EXCEPT !.outcome = "attached"]
    /\ attachedFiles' = Append(attachedFiles, createAttachedFile(attaching.file))
    /\ UNCHANGED <<sessionVars, streamVars, now, reactionArrays, reacted, exported,
                   lastImport, filters, lastValidation, lastEdit>>

AttachNext ==
    \/ AttachBegin
    \/ ContentRead
    \/ TextRead
    \/ ThumbnailRead
    \/ ThumbnailImage
    \/ MetadataImage
    \/ AttachReject
    \/ AttachResolve
    \/ RemoveFile

\* the browser delivers every load and error event and runs every
\* continuation
SpecAttach ==
    /\ Init
    /\ [][AttachNext]_vars
    /\ WF_vars(ContentRead)
    /\ WF_vars(TextRead)
    /\ WF_vars(ThumbnailRead)
    /\ WF_vars(ThumbnailImage)
    /\ WF_vars(MetadataImage)
    /\ WF_vars(AttachReject)
    /\ WF_vars(AttachResolve)

\* ------------------------------------------------------------------------
\* ChatSidebar: favourite, archive and rename, through onEditSession
\* ------------------------------------------------------------------------
\* what the user may type into the title field
EditTitles == {<<"x">>, <<" ", "y", " ">>, <<" ">>}

\* mutant: the flag is set, whatever it was
ToggleFavoriteSet ==
    /\ mounted
    /\ \E sessionId \in Ids(sessions) :
         LET session == FindSession(sessions, sessionId)
         IN /\ Commit([UI EXCEPT !.sessions =
                   updateSession(sessions, sessionId, [isFavorite |-> TRUE])])
            /\ lastEdit' = [op |-> "favorite", sid |-> sessionId,
                            flag |-> session.isFavorite, title |-> session.title]
    /\ UNCHANGED <<mounted, cerebrasClient, config, isLoading, isStreaming, sends,
                   nextMid, firstContent, lastDelete, nEdits, nImports, streamVars,
                   now, reactionArrays, reacted, exported, lastImport, filters,
                   attachedFiles, lastValidation, attaching>>

\* toggleFavorite, from the menu of a listed session
ToggleFavorite ==
    /\ mounted
    /\ \E sessionId \in Ids(sessions) :
         LET session == FindSession(sessions, sessionId)
         IN /\ Commit([UI EXCEPT !.sessions =
                   updateSession(sessions, sessionId,
                                 [isFavorite |-> ~session.isFavorite])])
            /\ lastEdit' = [op |-> "favorite", sid |-> sessionId,
                            flag |-> session.isFavorite, title |-> session.title]
    /\ UNCHANGED <<mounted, cerebrasClient, config, isLoading, isStreaming, sends,
                   nextMid, firstContent, lastDelete, nEdits, nImports, streamVars,
                   now, reactionArrays, reacted, exported, lastImport, filters,
                   attachedFiles, lastValidation, attaching>>

\* toggleArchive, from the menu of a listed session
ToggleArchive ==
    /\ mounted
    /\ \E sessionId \in Ids(sessions) :
         LET session == FindSession(sessions, sessionId)
         IN /\ Commit([UI EXCEPT !.sessions =
                   updateSession(sessions, sessionId,
                                 [isArchived |-> ~session.isArchived])])
            /\ lastEdit' = [op |-> "archive", sid |-> sessionId,
                            flag |-> session.isArchived, title |-> session.title]
    /\ UNCHANGED <<mounted, cerebrasClient, config, isLoading, isStreaming, sends,
                   nextMid, firstContent, lastDelete, nEdits, nImports, streamVars,
                   now, reactionArrays, reacted, exported, lastImport, filters,
                   attachedFiles, lastValidation, attaching>>

\* handleEditSession on a listed session, typing, then saveEdit: a title that
\* is empty after trim is dropped
SaveEdit ==
    /\ mounted
    /\ \E editingSessionId \in Ids(sessions), editTitle \in EditTitles :
         LET session == FindSession(sessions, editingSessionId)
         IN IF trim(editTitle) # <<>>
            THEN /\ Commit([UI EXCEPT !.sessions =
                        updateSession(sessions, editingSessionId,
                                      [title |-> trim(editTitle)])])
                 /\ lastEdit' = [op |-> "rename", sid |-> editingSessionId,
                                 flag |-> FALSE, title |-> session.title]
            ELSE /\ Commit(UI)
                 /\ lastEdit' = [op |-> "dropped", sid |-> editingSessionId,
                                 flag |-> FALSE, title |-> session.title]
    /\ UNCHANGED <<mounted, cerebrasClient, config, isLoading, isStreaming, sends,
                   nextMid, firstContent, lastDelete, nEdits, nImports, streamVars,
                   now, reactionArrays, reacted, exported, lastImport, filters,
                   attachedFiles, lastValidation, attaching>>

SidebarNext ==
    \/ Mount
    \/ SelectSession
    \/ Tick
    \/ ToggleFavorite
    \/ ToggleArchive
    \/ SaveEdit

SpecSidebar == ReactInit /\ [][SidebarNext]_vars

\* every handler
Next ==
    \/ Mount
    \/ ConfigureClient
    \/ CreateNewSession
    \/ SelectSession
    \/ DeleteSession
    \/ SendDispatch
    \/ SendChunk
    \/ SendSucceed
    \/ SendFail
    \/ HandleMessageEdit
    \/ ImportSessions
    \/ SetConfig
    \/ ExportSessions
    \/ Tick
    \/ SetFilters

Spec == Init /\ [][Next]_vars

\* the sends, with sessions created, selected and deleted meanwhile
SendNext ==
    \/ Mount
    \/ ConfigureClient
    \/ CreateNewSession
    \/ SelectSession
    \/ DeleteSession
    \/ SendDispatch
    \/ SendChunk
    \/ SendSucceed
    \/ SendFail

SpecSend == Init /\ [][SendNext]_vars

\* the title of a session, over prompts of several words
TitleNext ==
    \/ Mount
    \/ ConfigureClient
    \/ SendTitled
    \/ SendSucceed

SpecTitle == Init /\ [][TitleNext]_vars

\* the handlers that decide which session is selected
SelectNext ==
    \/ Mount
    \/ CreateNewSession
    \/ SelectSession
    \/ DeleteSession
    \/ ExportSessions
    \/ ImportSessions

SpecSelect == Init /\ [][SelectNext]_vars

\* the sends, with the configuration changed and sessions created meanwhile
ConfigNext ==
    \/ Mount
    \/ ConfigureClient
    \/ SetConfig
    \/ CreateNewSession
    \/ SendDispatch
    \/ SendSucceed

SpecConfig == Init /\ [][ConfigNext]_vars

\* export and import, of sessions with messages
ImportNext ==
    \/ Mount
    \/ ConfigureClient
    \/ Tick
    \/ SendDispatch
    \/ SendSucceed
    \/ ExportSessions
    \/ ImportSessions

SpecImport == Init /\ [][ImportNext]_vars

\* the sends and the message edits, on the session created at start
EditNext ==
    \/ Mount
    \/ ConfigureClient
    \/ SendDispatch
    \/ SendChunk
    \/ SendSucceed
    \/ SendFail
    \/ HandleMessageEdit

SpecEdit == Init /\ [][EditNext]_vars

\* ------------------------------------------------------------------------
\* What the wire carries, read off the frames the server sent (not off the
\* client's parse): only newline-terminated lines are frames, and the stream
\* ends at the first terminator.
\* ------------------------------------------------------------------------
CompleteFrames ==
    IF lastTerminated \/ frames = <<>> THEN frames
    ELSE SubSeq(frames, 1, Len(frames) - 1)

FirstDone ==
    IF \E i \in 1..Len(CompleteFrames) : CompleteFrames[i].kind = "done"
    THEN CHOOSE i \in 1..Len(CompleteFrames) :
            /\ CompleteFrames[i].kind = "done"
            /\ \A j \in 1..(i - 1) : CompleteFrames[j].kind # "done"
    ELSE Len(CompleteFrames) + 1

DoneOnWire == FirstDone <= Len(CompleteFrames)

FramesBeforeDone == SubSeq(CompleteFrames, 1, FirstDone - 1)

IsContentDelta(f) == f.kind = "delta" /\ f.content # <<>>

RECURSIVE Contents(_)
Contents(fs) ==
    IF fs = <<>> THEN <<>>
    ELSE IF IsContentDelta(Head(fs)) THEN <<Head(fs).content>> \o Contents(Tail(fs))
    ELSE Contents(Tail(fs))

WireDeltas == Contents(FramesBeforeDone)

MalformedOnWire ==
    \E i \in 1..Len(FramesBeforeDone) : FramesBeforeDone[i].kind = "malformed"

IsChunk(c) == c.kind = "chunk"

IsComplete(c) == c.kind = "complete"

RECURSIVE Args(_)
Args(cs) == IF cs = <<>> THEN <<>> ELSE <<Head(cs).arg>> \o Args(Tail(cs))

ChunkArgs == Args(SelectSeq(calls, IsChunk))

CompleteCount == Len(SelectSeq(calls, IsComplete))

IsPrefix(s, t) == Len(s) <= Len(t) /\ SubSeq(t, 1, Len(s)) = s

StreamReturned == spc \in {"returned", "done"}

\* C3: every run of sendMessageStream that returns without throwing has
\* invoked onComplete exactly once before returning.
C3_OnCompleteExactlyOnce == StreamReturned => CompleteCount = 1

\* C4: onChunk is invoked once per content-carrying delta, in wire order
\* (at every moment the chunks delivered are a prefix of the deltas on the
\* wire, and all of them once the stream has returned), and no onChunk call
\* follows the onComplete call.
C4_ChunksInWireOrder ==
    /\ IsPrefix(ChunkArgs, WireDeltas)
    /\ StreamReturned => ChunkArgs = WireDeltas
    /\ \A i \in 1..Len(calls) : IsComplete(calls[i]) => i = Len(calls)

C4_Witness ==
    /\ spc = "done"
    /\ ChunkArgs = <<(<<"a">>), (<<"b">>)>>
    /\ Len(calls) = 3
    /\ IsComplete(calls[3])

\* The callbacks sendMessageStream makes when the whole body arrives in one read.
SingleReadCalls ==
    processLines([LoopState EXCEPT !.totalContent = <<>>, !.tokenCount = 0,
                                   !.calls = <<>>, !.fullResponse = <<>>,
                                   !.streamingMessage = <<>>,
                                   !.assistantMessage = NewAssistantMessage],
                 completeLines(split(body, NL))).calls

\* C5: for a fixed body the onChunk arguments and the onComplete invocation
\* are the same however the body is split into reads, also inside a line.
C5_SplitInvariant == StreamReturned => calls = SingleReadCalls

C5_Witness ==
    /\ spc = "done"
    /\ midLineSplit
    /\ lastTerminated
    /\ Len(ChunkArgs) = 2
    /\ CompleteCount = 1

\* C6: a data frame whose payload fails to parse is discarded silently: no
\* error comes out of the stream for it, the valid frames before and after it
\* still give their onChunk calls, and the completion callback is delivered.
C6_MalformedSkipped ==
    MalformedOnWire =>
        /\ failure # "parse"
        /\ StreamReturned =>
              /\ ChunkArgs = WireDeltas
              /\ DoneOnWire => CompleteCount = 1

C6_Witness ==
    /\ spc = "done"
    /\ frames = <<DeltaFrame(<<"a">>), MalformedFrame, DeltaFrame(<<"b">>), DoneFrame>>
    /\ ChunkArgs = <<(<<"a">>), (<<"b">>)>>
    /\ CompleteCount = 1

\* C7: the accumulated content (the client's totalContent, the caller's
\* fullResponse, and the content of the appended assistant message) is the
\* in-order concatenation of the deltas passed to onChunk.
C7_ContentIsConcatenation ==
    /\ totalContent = Concat(ChunkArgs)
    /\ fullResponse = Concat(ChunkArgs)
    /\ spc = "done" => appended.content = Concat(ChunkArgs)

C7_Witness ==
    /\ spc = "done"
    /\ ChunkArgs = <<(<<"a">>), (<<"b">>)>>
    /\ appended.content = <<"a", "b">>

\* ------------------------------------------------------------------------
\* Claims about the session collection
\* ------------------------------------------------------------------------
\* C1: after two or more edits of a message, originalContent is the content
\* the message had before the first edit.
C1_OriginalContentIsFirst ==
    \A i \in 1..Len(sessions) :
        \A j \in 1..Len(sessions[i].messages) :
            LET m == sessions[i].messages[j]
            IN m.isEdited => m.originalContent = firstContent[m.id]

PositionsOf(list, id) == {j \in 1..Len(list) : list[j].id = id}

UserId(k) == sends[k].updatedMessages[Len(sends[k].updatedMessages)].id

\* C2: when two sends to one session overlap and both have completed, the
\* session holds both user messages and both assistant replies, each once,
\* the replies in the order of completion.
C2_OverlappingSendsKeepAll ==
    \A k1, k2 \in 1..Len(sends) :
        ( /\ k1 \in sends[k2].during
          /\ sends[k1].sid = sends[k2].sid
          /\ sends[k1].status = "done"
          /\ sends[k2].status = "done"
          /\ HasSession(sessions, sends[k1].sid) )
        => LET ms == FindSession(sessions, sends[k1].sid).messages
               at(id) == CHOOSE j \in PositionsOf(ms, id) : TRUE
           IN /\ \A id \in {UserId(k1), UserId(k2), sends[k1].assistantMessage.id,
                            sends[k2].assistantMessage.id} :
                    Cardinality(PositionsOf(ms, id)) = 1
              /\ (sends[k1].rank < sends[k2].rank) =
                    (at(sends[k1].assistantMessage.id) < at(sends[k2].assistantMessage.id))

SendInFlightFor(id) == \E k \in 1..Len(sends) : InFlight(k) /\ sends[k].sid = id

\* C8: whenever no send is in flight for a session, its stored statistics
\* equal the statistics function of its messages.
C8_StatisticsMatchMessages ==
    \A i \in 1..Len(sessions) :
        ~SendInFlightFor(sessions[i].id) =>
            sessions[i].statistics = getSessionStatistics(sessions[i])

\* ids a handler may be called with: those ever handed out, and the foreign one
KnownIds == {-1} \cup 1..nextSid

\* C9: a mutation addressed to a session id that is not in the collection is
\* a no-op (updating or deleting by a missing id gives the collection back),
\* and when a send ends, on the success or the error path, whose session has
\* been deleted meanwhile, the collection and the selection stay as they are:
\* the session is not re-created and no other session is touched.
C9_MissingSessionNoOp ==
    /\ [](\A id \in KnownIds \ Ids(sessions) :
              /\ updateSession(sessions, id, [title |-> Ellipsis, messages |-> <<>>])
                    = sessions
              /\ deleteSession(UI, id).sessions = sessions)
    /\ [][\A k \in 1..Len(sends) :
              ( /\ InFlight(k)
                /\ sends'[k].status # "inflight"
                /\ ~HasSession(sessions, sends[k].sid) )
              => /\ sessions' = sessions
                 /\ currentSessionId' = currentSessionId]_vars

C9_Witness ==
    \E k \in 1..Len(sends) :
        /\ sends[k].orphan
        /\ sends[k].status = "done"
        /\ ~HasSession(sessions, sends[k].sid)
        /\ \E i \in 1..Len(sessions) : sessions[i].messages # <<>>

\* C10: the selected session id never dangles: it is unset or the id of a
\* session in the collection; deleting the selected session selects the first
\* remaining session, or a freshly created one when none remains.
C10_SelectionNeverDangles ==
    /\ [](currentSessionId = NoSession \/ HasSession(sessions, currentSessionId))
    /\ [][\A id \in Ids(sessions) :
              (id \notin Ids(sessions') /\ currentSessionId = id)
              => LET remaining == SelectSeq(sessions, LAMBDA x : x.id # id)
                 IN IF remaining # <<>>
                    THEN currentSessionId' = remaining[1].id
                    ELSE /\ Len(sessions') = 1
                         /\ sessions'[1].id \notin Ids(sessions)
                         /\ sessions'[1].messages = <<>>
                         /\ currentSessionId' = sessions'[1].id]_vars

C10_Witness ==
    /\ lastDelete.happened
    /\ lastDelete.wasSelected
    /\ lastDelete.hadRemaining
    /\ nImports > 0
    /\ HasSession(sessions, currentSessionId)

\* ------------------------------------------------------------------------
\* Claims about the settings, the files and the derived views
\* ------------------------------------------------------------------------
\* C11: every send issues its completion request with the settings snapshot
\* of the session it was sent from (the model and temperature captured when
\* the session was created), whatever the global configuration has become.
C11_SendUsesSessionSnapshot ==
    \A k \in 1..Len(sends) :
        HasSession(sessions, sends[k].sid) =>
            LET settings == FindSession(sessions, sends[k].sid).settings
            IN /\ sends[k].model = settings.model
               /\ sends[k].temperature = settings.temperature

\* C12: when the file exportSessions saved is imported, the imported sessions
\* (what the import of that file into an empty collection gives) are
\* deep-equal to the collection that was exported: every field as it was,
\* ids and timestamps included, a Date still a Date.
C12_ExportImportRoundTrip ==
    lastImport.payload = "own" =>
        SubSeq(lastImport.after, 1, Len(lastImport.original)) = lastImport.original

\* C13: importing text that is not JSON, or JSON that is not a list of
\* sessions, shows the import error and leaves the collection as it was;
\* importing a list of sessions gives these sessions followed by the
\* sessions there were, in order.
C13_MalformedImportRejected ==
    /\ lastImport.payload \in {"notjson", "jsonstring"} =>
          /\ lastImport.toast = "error"
          /\ lastImport.after = lastImport.before
    /\ lastImport.payload \in {"foreign", "own"} =>
          lastImport.after = lastImport.content \o lastImport.before

\* C14: with no filter dimension set the filtered view is the collection
\* itself: the same sessions in the same order.
C14_NoFilterIsIdentity ==
    (\A dimension \in DOMAIN filters : ~IsSet(filters[dimension]))
        => filteredSessions = sessions

C14_Witness ==
    /\ filters = NoFilters
    /\ Len(sessions) = 2
    /\ sessions[1] # sessions[2]
    /\ anyFiles(sessions[1].messages)
    /\ filteredSessions = sessions

\* the instant a creation date denotes, whether held as a Date or as a string
InstantOf(date) == date.ms

IsSubstring(word, text) ==
    \E i \in 0..Len(text) : \E j \in i..Len(text) : SubSeq(text, i + 1, j) = word

\* a session satisfies every dimension of the filters that is not undefined
Satisfies(session) ==
    /\ IsSet(filters.query) =>
          LET q == toLowerCase(ValueOf(filters.query))
          IN \/ IsSubstring(q, toLowerCase(session.title))
             \/ \E j \in 1..Len(session.messages) :
                   IsSubstring(q, toLowerCase(session.messages[j].content))
    /\ IsSet(filters.dateFrom) =>
          InstantOf(session.createdAt) >= InstantOf(ValueOf(filters.dateFrom))
    /\ IsSet(filters.dateTo) =>
          InstantOf(session.createdAt) <= InstantOf(ValueOf(filters.dateTo))
    /\ IsSet(filters.tags) =>
          {session.tags[j] : j \in 1..Len(session.tags)} \cap
          {ValueOf(filters.tags)[i] : i \in 1..Len(ValueOf(filters.tags))} # {}
    /\ IsSet(filters.category) => session.category = ValueOf(filters.category)
    /\ IsSet(filters.messageType) =>
          \E j \in 1..Len(session.messages) :
              session.messages[j].role = ValueOf(filters.messageType)
    /\ IsSet(filters.hasFiles) =>
          ValueOf(filters.hasFiles) =
              (\E j \in 1..Len(session.messages) : session.messages[j].files # <<>>)
    /\ IsSet(filters.sentiment) =>
          \E j \in 1..Len(session.messages) :
              session.messages[j].metadata.sentiment = ValueOf(filters.sentiment)

\* C15: the filtered view is the order-preserving subsequence of the
\* collection made of exactly the sessions that satisfy every filter
\* dimension that is not undefined.
C15_FilterIsConjunction == filteredSessions = SelectSeq(sessions, Satisfies)

\* the places <<session, message>> of the collection
MessagePlaces ==
    UNION {{<<i, j>> : j \in 1..Len(sessions[i].messages)} : i \in 1..Len(sessions)}

\* the costs of a set of places, added up one place at a time
RECURSIVE CostOfPlaces(_)
CostOfPlaces(places) ==
    IF places = {} THEN 0
    ELSE LET p == CHOOSE q \in places : TRUE
         IN sessions[p[1]].messages[p[2]].metadata.cost + CostOfPlaces(places \ {p})

PlacesOf(topic) ==
    {p \in MessagePlaces :
        \E n \in 1..Len(sessions[p[1]].messages[p[2]].metadata.topics) :
            sessions[p[1]].messages[p[2]].metadata.topics[n] = topic}

AllTopics ==
    UNION {{sessions[p[1]].messages[p[2]].metadata.topics[n] :
              n \in 1..Len(sessions[p[1]].messages[p[2]].metadata.topics)} :
           p \in MessagePlaces}

\* where a topic is met first: session, message, position in the topic list
FirstSeen(topic) ==
    LET seen == {<<p[1], p[2], n>> : p \in PlacesOf(topic), n \in 1..6}
        at == {t \in seen :
                 /\ t[3] <= Len(sessions[t[1]].messages[t[2]].metadata.topics)
                 /\ sessions[t[1]].messages[t[2]].metadata.topics[t[3]] = topic}
    IN CHOOSE t \in at :
         \A u \in at :
            \/ t[1] < u[1]
            \/ (t[1] = u[1] /\ t[2] < u[2])
            \/ (t[1] = u[1] /\ t[2] = u[2] /\ t[3] <= u[3])

SeenBefore(a, b) ==
    LET t == FirstSeen(a)
        u == FirstSeen(b)
    IN \/ t[1] < u[1]
       \/ (t[1] = u[1] /\ t[2] < u[2])
       \/ (t[1] = u[1] /\ t[2] = u[2] /\ t[3] < u[3])

\* a ranks before b: more messages, or as many and met earlier
RanksBefore(a, b) ==
    \/ Cardinality(PlacesOf(a)) > Cardinality(PlacesOf(b))
    \/ (Cardinality(PlacesOf(a)) = Cardinality(PlacesOf(b)) /\ SeenBefore(a, b))

SupportedType(type) ==
    LET family == split(type, "/")[1]
    IN \/ (Len(split(type, "/")) > 1 /\ family \in {<<"t", "e", "x", "t">>,
                                                     <<"i", "m", "a", "g", "e">>})
       \/ \E special \in allowedTypes \cup textTypes :
            special[Len(special)] # "/" /\ startsWith(type, special)

\* the extension of the name, in lower case, is in the supported set
SupportedExtension(name) ==
    LET pieces == split(toLowerCase(name), ".")
    IN Len(pieces) > 1 /\ pieces[Len(pieces)] \in textExtensions

IsPyFile(name) ==
    LET pieces == split(toLowerCase(name), ".")
    IN Len(pieces) > 1 /\ pieces[Len(pieces)] = <<"p", "y">>

\* C18: a file larger than the limit is rejected for its size whatever its
\* type, and a file of exactly the limit is not; a file within the limit
\* whose MIME type and extension are both unsupported is rejected for its
\* type; every other file is accepted; an accepted .py file is attached with
\* the language python
C18_ValidateFile ==
    LET file == lastValidation.file
    IN /\ lastValidation.checked =>
            IF file.size > maxFileSize
            THEN ~lastValidation.valid /\ lastValidation.error = "size-exceeded"
            ELSE IF ~SupportedType(file.type) /\ ~SupportedExtension(file.name)
            THEN ~lastValidation.valid /\ lastValidation.error = "unsupported-type"
            ELSE lastValidation.valid /\ lastValidation.error = None
       /\ lastValidation.attached => lastValidation.valid
       /\ \A n \in 1..Len(attachedFiles) :
            /\ attachedFiles[n].size <= maxFileSize
            /\ SupportedType(attachedFiles[n].type) \/ SupportedExtension(attachedFiles[n].name)
            /\ IsPyFile(attachedFiles[n].name) =>
                    attachedFiles[n].metadata.language = "python"

\* a .py file of exactly the limit and of a binary type has been attached
C18_Witness ==
    /\ lastValidation.checked
    /\ lastValidation.attached
    /\ lastValidation.file.size = maxFileSize
    /\ IsPyFile(lastValidation.file.name)
    /\ ~SupportedType(lastValidation.file.type)
    /\ attachedFiles # <<>>
    /\ attachedFiles[Len(attachedFiles)].name = lastValidation.file.name
    /\ attachedFiles[Len(attachedFiles)].metadata.language = "python"

\* the words of a text: the maximal runs of characters that are not
\* whitespace, in order
RECURSIVE WordsOf(_, _, _)
WordsOf(text, word, found) ==
    LET closed == IF word = <<>> THEN found ELSE Append(found, word)
    IN IF text = <<>> THEN closed
       ELSE IF Head(text) \in {" ", NL} THEN WordsOf(Tail(text), <<>>, closed)
       ELSE WordsOf(Tail(text), Append(word, Head(text)), found)

\* the first six words of the text, and the ellipsis if there are more
TitleOf(text) ==
    LET words == WordsOf(text, <<>>, <<>>)
    IN join(SubSeq(words, 1, IF Len(words) < 6 THEN Len(words) ELSE 6), <<" ">>) \o
       (IF Len(words) > 6 THEN Ellipsis ELSE <<>>)

\* C19: the first user message sets the title to the first 6 words of its
\* text, with the ellipsis exactly when the text has more than 6 words, and
\* later messages leave the title as it is: a session with messages is
\* titled after its first message
C19_TitleFromFirstMessage ==
    \A i \in 1..Len(sessions) :
        sessions[i].messages # <<>> =>
            sessions[i].title = TitleOf(sessions[i].messages[1].content)

\* the react operations made with the emoji on the message of the session
ReactCount(sid, mid, emoji) ==
    Cardinality({n \in 1..Len(reacted) :
                    reacted[n] = [sid |-> sid, mid |-> mid, emoji |-> emoji]})

\* the reaction entries of a message
ReactionsOf(m) == IF m.reactions = NoArray THEN <<>> ELSE reactionArrays[m.reactions]

C21_FailedSendIsComplete ==
    [][\A k \in 1..Len(sends) :
          (InFlight(k) /\ Len(sends') >= k /\ sends'[k].status = "failed") =>
              /\ Len(sends') = Len(sends)
              /\ \A j \in 1..Len(sends) : j # k => sends'[j] = sends[j]
              /\ Len(sessions') = Len(sessions)
              /\ \A i \in 1..Len(sessions) :
                   IF sessions[i].id = sends[k].sid
                   THEN LET messages == sessions'[i].messages
                            n == Len(sends[k].before)
                        IN /\ Len(messages) = n + 2
                           /\ SubSeq(messages, 1, n) = sends[k].before
                           /\ messages[n + 1].role = "user"
                           /\ messages[n + 1].id = UserId(k)
                           /\ messages[n + 2].role = "assistant"
                           /\ messages[n + 2].content = ErrorText
                   ELSE sessions'[i] = sessions[i]]_vars

\* a streamed send has failed after a chunk, while another session was
\* selected, and its session ends with the failure text
C21_Witness ==
    \E k \in 1..Len(sends) :
        /\ sends[k].status = "failed"
        /\ sends[k].chunks > 0
        /\ currentSessionId # sends[k].sid
        /\ \E i \in 1..Len(sessions) :
             /\ sessions[i].id = sends[k].sid
             /\ sessions[i].messages[Len(sessions[i].messages)].content = ErrorText

\* C22: a createAttachedFile call on a file whose content can be read ends
\* with the file attached, also when the thumbnail or the dimensions could
\* not be made, and then that field is absent
C22_AttachAlwaysCompletes ==
    /\ (attaching.outcome = "pending" /\ attaching.readable)
           ~> (attaching.outcome = "attached")
    /\ [](attaching.outcome = "attached" =>
            /\ attaching.readable
            /\ attaching.thumbnail \in {"dataURL", "undefined"}
            /\ attaching.metadata \in {"dimensions", "resolved"}
            /\ ~isImageFile(attaching.file) =>
                    attaching.thumbnail = "undefined" /\ attaching.metadata = "resolved")

\* an image whose thumbnail and dimensions both failed has been attached
C22_Witness ==
    /\ attaching.outcome = "attached"
    /\ isImageFile(attaching.file)
    /\ attaching.thumbnail = "undefined"
    /\ attaching.metadata = "resolved"
    /\ attachedFiles # <<>>
    /\ attachedFiles[Len(attachedFiles)].name = attaching.file.name

\* the number of letters of a class in a text
LetterCount(text, class) == Cardinality({i \in 1..Len(text) : text[i] \in class})

\* C23: the language of a completed reply is 'ru' when its text has strictly
\* more Cyrillic than Latin letters, 'en' when it has strictly more Latin than
\* Cyrillic letters, and 'mixed' only when the two numbers are equal.
C23_LanguageByLetterCounts ==
    assistantMessage.metadata.language # None =>
        LET cyrillic == LetterCount(totalContent, russianChars)
            latin == LetterCount(totalContent, englishChars)
            language == assistantMessage.metadata.language
        IN /\ cyrillic > latin => language = "ru"
           /\ latin > cyrillic => language = "en"
           /\ language = "mixed" => cyrillic = latin

\* What the code computes: each class counts once, however many letters.
LanguageByPresence ==
    assistantMessage.metadata.language # None =>
        LET cyrillic == \E i \in 1..Len(totalContent) : totalContent[i] \in russianChars
            latin == \E i \in 1..Len(totalContent) : totalContent[i] \in englishChars
            language == assistantMessage.metadata.language
        IN /\ language = "ru" <=> (cyrillic /\ ~latin)
           /\ language = "en" <=> (latin /\ ~cyrillic)
           /\ language = "mixed" <=> (cyrillic <=> latin)

\* C24: an edit or a reaction leaves every message value of the prior
\* collection as it was, its reactions list included: read after the step,
\* each message the collection held before the step has the content, the
\* flags and the reaction entries it had before the step.
C24_PriorMessagesUnchanged ==
    [][\A i \in 1..Len(sessions) : \A j \in 1..Len(sessions[i].messages) :
          deepMessage(sessions[i].messages[j], reactionArrays') =
              deepMessage(sessions[i].messages[j], reactionArrays)]_vars


\* ------------------------------------------------------------------------
\* Claims about the sidebar's changes of a session
\* ------------------------------------------------------------------------
\* the session the sidebar changed, as the claim says it is afterwards
EditedSession(session) ==
    LET bumped == [session EXCEPT !.updatedAt = Date(now)]
    IN CASE lastEdit'.op = "favorite" ->
                [bumped EXCEPT !.isFavorite = ~session.isFavorite]
         [] lastEdit'.op = "archive" ->
                [bumped EXCEPT !.isArchived = ~session.isArchived]
         [] OTHER -> [bumped EXCEPT !.title = FindSession(sessions', lastEdit'.sid).title]

C26_SessionIdsUnique ==
    \A i, j \in 1..Len(sessions) :
        (sessions[i].id = sessions[j].id /\ sessions[i].id # NotASession.id) => i = j

\* C27: when a send ends, every message its session had when the send was
\* dispatched is in the session afterwards with the content, the isEdited
\* flag, the originalContent and the reactions it had just before the end:
\* an edit or a reaction made while the send was in flight is kept.
C27_CompletionKeepsEdits ==
    [][\A k \in 1..Len(sends) :
          (InFlight(k) /\ Len(sends') >= k /\ ~(sends'[k].status = "inflight")) =>
              \A i \in 1..Len(sessions) :
                  sessions[i].id = sends[k].sid =>
                      \A j \in 1..Len(sessions[i].messages) :
                          sessions[i].messages[j].id \in Ids(sends[k].updatedMessages) =>
                              \E n \in 1..Len(sessions'[i].messages) :
                                  deepMessage(sessions'[i].messages[n], reactionArrays') =
                                      deepMessage(sessions[i].messages[j], reactionArrays)]_vars

\* C28: the step that ends a send puts the assistant reply or the error
\* message at the end of the session the send was dispatched from, whatever
\* session is selected by then, and leaves every other session as it was,
\* its messages and statistics included.
C28_ReplyGoesToDispatchSession ==
    [][\A k \in 1..Len(sends) :
          (InFlight(k) /\ Len(sends') >= k /\ ~(sends'[k].status = "inflight")) =>
              /\ Len(sessions') = Len(sessions)
              /\ \A i \in 1..Len(sessions) :
                    IF sessions[i].id = sends[k].sid
                    THEN LET messages == sessions'[i].messages
                             reply == messages[Len(messages)]
                         IN /\ sessions'[i].id = sends[k].sid
                            /\ Len(messages) > 0
                            /\ reply = sends'[k].assistantMessage
                            /\ reply.role = "assistant"
                            /\ sends'[k].status = "failed" => reply.content = ErrorText
                            /\ sends'[k].status = "done" =>
                                  reply.content = sends[k].fullResponse
                    ELSE sessions'[i] = sessions[i]]_vars

\* A reply that was streamed is the last message of its session
\* while another, newer session without messages is selected.
C28_Witness ==
    \E k \in 1..Len(sends), i, c \in 1..Len(sessions) :
        /\ sends[k].status = "done"
        /\ sends[k].chunks > 0
        /\ sessions[i].id = sends[k].sid
        /\ sessions[i].messages[Len(sessions[i].messages)] = sends[k].assistantMessage
        /\ sessions[c].id = currentSessionId
        /\ c # i
        /\ sessions[c].messages = <<>>
        /\ sessions[c].statistics = ZeroStatistics

\* C29: whenever the streaming text is shown (isStreaming is true and
\* streamingMessage is not empty), the selected session is the session of the
\* send in flight whose text it is.
C29_StreamingTextWithItsSession ==
    (isStreaming /\ streamingMessage # <<>>) =>
        \E k \in 1..Len(sends) :
            /\ InFlight(k)
            /\ sends[k].fullResponse = streamingMessage
            /\ sends[k].sid = currentSessionId

\* C30: isLoading and isStreaming are true while a send is in flight, and
\* they are false and streamingMessage is empty while none is.
C30_LoadingTracksSends ==
    IF \E k \in 1..Len(sends) : InFlight(k)
    THEN isLoading /\ isStreaming
    ELSE ~isLoading /\ ~isStreaming /\ streamingMessage = <<>>

====
